---------------------------- MODULE Spec2Model ----------------------------
(***************************************************************************)
(* CloudSentinel agent: the websocket transport client, the session        *)
(* protocol read loop (StartReporter) and the process manager.             *)
(*                                                                         *)
(* Goroutines of the transport/protocol part:                              *)
(*   - the protocol task: Agent.Start's ConnectWithRetry, then             *)
(*     StartReporter's read loop (rpc is its position);                    *)
(*   - one concurrent sender (a worker body calling Client.SendMessage;    *)
(*     wpc is its position);                                               *)
(*   - the closer (Agent.Stop calling Client.Close; cpc is its position).  *)
(* Goroutines of the process manager, for one kind of worker:              *)
(*   - the goroutines Start...Process launches (g[i] is the i-th);         *)
(*   - the monitor (MonitorProcesses), whose restart takes pm.mu;          *)
(*   - Agent.Stop inside ProcessManager.Shutdown (spc is its position).    *)
(* Every region the code runs under Client.mu or pm.mu is one atomic       *)
(* action.                                                                 *)
(* Commands: each command handler of the read loop (restart,               *)
(* update_config, update) is one action of the protocol task; the          *)
(* goroutine of an update and the reporter's metrics ticker are tasks of   *)
(* their own.                                                              *)
(* Further tasks: the steps of Updater.UpdateAgent (upc), the heartbeat    *)
(* worker with Client.StartHeartbeat and the monitor's health channel      *)
(* (bpc), the Collector's log channel with processLogs, and the            *)
(* Collector's network and disk rate samplers, each call under its mutex   *)
(* one atomic action.                                                      *)
(***************************************************************************)
EXTENDS Integers, Naturals, FiniteSets, Sequences, TLC

\* ------------------------------------------------------------------ bounds
\* Number of times Close() is called (Agent.Stop calls it once; a second
\* call exercises the "already closed" branch).
MaxCloseCalls == 2
\* Number of distinct panel RSA keys the environment can present.
NumPanelKeys == 2
\* Number of worker goroutines of one kind the process manager may spawn.
MaxSpawn == 3
\* Largest numerator and denominator of the JSON numbers a command carries.
MaxNum == 1
MaxDen == 2
\* Number of commands the read loop handles.
MaxCommands == 2
\* Number of distinct AES session keys the panel can send.
NumSessionKeys == 2
\* Number of beats a health channel holds in the runs looked at.
MaxBeats == 2
\* Seconds the monitor's clock is followed after a timestamp.
MaxSilence == 1
\* Partitions GetDiskPart reports at most.
MaxParts == 2
\* Entries excluded_mount_points and excluded_filesystems hold at most.
MaxExcluded == 1
\* Width of a byte counter: the counters count modulo CounterMod.
CounterMod == 2
\* Entries a counter map has at most.
MaxIfaces == 1
\* Ticks of the sampler clock followed.
MaxClock == 3
\* Ticks of the sampler clock in one second.
TicksPerSecond == 2
\* Number of SendLog calls followed.
MaxLogs == 101
\* Length of the .sha256 file of a release, in characters.
MaxSumLen == 3
\* Number of distinct tarballs a release can carry.
NumTarballs == 2

\* ------------------------------------------------------- program constants
\* NewClient: MaxReconnect: 5
MaxReconnect == 5
\* NewClient: ReconnectWait: 5 * time.Second (seconds)
ReconnectWait == 5
\* StartReporter: for i := 0; i < 12; i++ { ... time.Sleep(5 * time.Second) }
WaitRounds == 12
\* StartReporter: time.Sleep(5 * time.Second) inside the 60 s wait
WaitStep == 5
\* NewProcessManager: heartbeatRestartDelay / reporterRestartDelay: 1 * time.Second
InitialRestartDelay == 1
\* NewProcessManager: maxRestartDelay: 64 * time.Second
MaxRestartDelay == 64
\* NewProcessManager: heartbeatHealth / reporterHealth: make(chan bool, 10)
HealthChanCap == 10
\* MonitorProcesses: the reporter is restarted after more than 120 s without a
\* healthy beat.
ReporterTimeout == 120
\* StartHeartbeat: reconnectTimeout := time.After(30 * time.Second)
HeartbeatReconnectTimeout == 30
\* StartHeartbeat: checkTicker := time.NewTicker(5 * time.Second)
HeartbeatCheckEvery == 5
\* NewCollector: logChan: make(chan map[string]interface{}, 100)
LogChanCap == 100
\* processLogs: buffer := make([]interface{}, 0, 10); if len(buffer) >= 10
LogBatchSize == 10
\* LoadConfigFromFile: the cadences a file without them gets, in seconds.
DefaultMetricsInterval == 5
DefaultDetailInterval == 15
DefaultSystemInterval == 15
DefaultHeartbeatInterval == 10

VARIABLES
  \* ---- websocket.Client
  IsConnected,        \* Client.IsConnected
  Conn,               \* Client.Conn: "nil", or the state of the connection it points to
  stopped,            \* Client.stopChan is closed
  EncryptionEnabled,  \* Client.EncryptionEnabled
  SessionKey,         \* Client.SessionKey: 0 is nil, k > 0 a key
  \* ---- protocol task (Agent.Start + reporter.StartReporter)
  rpc,                \* position of the protocol task
  caller,             \* who called ConnectWithRetry: "start" (Agent.Start) or "reconnect"
  attempts,           \* ConnectWithRetry: attempts
  slept,              \* seconds slept inside the current ConnectWithRetry call
  waitI,              \* StartReporter: i of the 60 s wait loop
  inbox,              \* the frame the read returned, being handled (NoMsg: none)
  lastErr,            \* the error the handler of the last step returned ("" is nil)
  \* ---- config.Config held by StartReporter (cfgPtr)
  PanelFingerprint,   \* cfg.PanelFingerprint: 0 is "", f > 0 the fingerprint of key f
  PanelPublicKey,     \* cfg.PanelPublicKey: NoPem or a PEM
  AgentPrivateKey,    \* cfg.AgentPrivateKey / cfg.AgentPublicKey, written together:
                      \* NoKeyPair (both ""), or the key pair they hold
  \* ---- concurrent sender
  wpc,                \* position of the sender inside SendMessage
  wEnc,               \* what its IsEncryptionEnabled() call returned
  \* ---- closer
  cpc,                \* position inside Client.Close
  closeCalls,         \* completed Close() calls
  \* ---- observation of the wire and of results (history)
  lastFrame,          \* the frame the last step wrote to the connection (NoFrame: none)
  lastSend,           \* what the SendMessage call of the last step returned ("none": no call)
  connFresh,          \* no session_key was processed since the last successful Connect
  \* ---- process.ProcessManager, for one kind of worker
  workerKind,         \* the worker kind looked at: "heartbeat" or "reporter"
  pmCtxDone,          \* pm.ctx is cancelled
  ctxCur,             \* the context in pm.heartbeatCtx / pm.reporterCtx (0: nil)
  ctxCancelled,       \* the worker contexts whose cancel function was called
  cancelSet,          \* pm.heartbeatCancel / pm.reporterCancel is not nil
  g,                  \* the goroutines running runHeartbeatProcess / runReporterProcess
  pmMu,               \* who holds pm.mu between steps ("free": nobody)
  spc,                \* position of Agent.Stop inside ProcessManager.Shutdown
  RestartDelay,       \* pm.heartbeatRestartDelay / pm.reporterRestartDelay, in seconds
  \* ---- configuration and commands
  cfgPtr,             \* StartReporter: *cfgPtr, the Config the read loop holds
  configFile,         \* the persisted configuration file (agent.lock.json)
  agentCfg,           \* Agent.cfg
  collector,          \* Collector.MetricsInterval / DetailInterval / SystemInterval
  pmHeartbeatInterval,\* the interval handed to pm.SetHeartbeatInterval, in seconds
  metricsTicker,      \* period of the running reporter's metricsTicker (0: no reporter)
  sinceTick,          \* seconds since metricsTicker last fired (or was created)
  sinceReload,        \* seconds since UpdateIntervals changed the metrics interval
                      \* with no metrics tick since (-1: not waiting for one)
  proc,               \* the agent process: "running", or how it exited
  updaters,           \* running goroutines of the update command (UpdateAgent)
  handled,            \* commands the read loop has handled
  \* ---- observation of the last command-layer step (history)
  lastCmd,            \* the command it handled (NoCmd: none)
  lastResponse,       \* the command_response it handed to SendMessage (NoResponse: none)
  cmdErr,             \* the error that occurred inside it ("": none)
  restartInvoked,     \* it called restartAgent
  reloadEmitted,      \* it called callbacks.OnReload
  lastUpdater,        \* how an UpdateAgent call ended in it ("none": no call ended)
  \* ---- UpdateService.UpdateAgent, one call
  upc,                \* position inside UpdateAgent ("idle": not called)
  uerr,               \* the error UpdateAgent returned ("": none)
  exe,                \* content of the current executable: "old", "new" or "partial"
  backup,             \* content of <exe>.backup: "none", "old" or "partial"
  tarball,            \* the downloaded tarball (0: none)
  sumFile,            \* content of the downloaded .sha256 file
  verified,           \* the checksum comparison of this call has succeeded
  \* ---- health beats of the worker kind looked at
  health,             \* pm.heartbeatHealth / pm.reporterHealth: the beats queued
  sinceHealth,        \* MonitorProcesses: seconds since lastHeartbeatHealth /
                      \* lastReporterHealth (counted up to MaxSilence)
  bpc,                \* position of the first goroutine running runHeartbeatProcess
  bctx,               \* the context its StartHeartbeat call was given
  bWaited,            \* StartHeartbeat: seconds waited for the reconnect
  sendFailed,         \* a "hello" send failed in the current StartHeartbeat call
  \* ---- Collector log shipping
  logChan,            \* Collector.logChan: the records queued
  buffer,             \* processLogs: buffer
  nextLog,            \* SendLog calls made so far
  accepted,           \* records logChan has taken so far (history)
  sent,               \* records handed to SendMessage so far (history)
  lastBatch,          \* the batch this step handed to SendMessage, if any
  \* ---- Collector rate samplers
  lastNetIOCounters,  \* Collector.lastNetIOCounters
  lastNetIOTime,      \* Collector.lastNetIOTime, in ticks; 0 is the zero time
  lastDiskIOCounters, \* Collector.lastDiskIOCounters
  lastDiskIOTime,     \* Collector.lastDiskIOTime, in ticks; 0 is the zero time
  ioNow,              \* time.Now() for the samplers, in ticks
  lastSample,         \* what the sampler call of this step returned, if any
  \* ---- Collector disk partitions
  ExcludedMountPoints, \* Config.ExcludedMountPoints
  ExcludedFilesystems, \* Config.ExcludedFilesystems
  partitions,         \* what GetDiskPart returns, with each partition's usage
  diskData            \* the diskData of the last SendDiskInfo

tvars == <<IsConnected, Conn, stopped, EncryptionEnabled, SessionKey,
           rpc, caller, attempts, slept, waitI, inbox, lastErr,
           PanelFingerprint, PanelPublicKey, AgentPrivateKey,
           wpc, wEnc, cpc, closeCalls,
           lastFrame, lastSend, connFresh>>

\* The transport and protocol variables a process-manager step leaves alone.
tvarsButRpc == <<IsConnected, Conn, stopped, EncryptionEnabled, SessionKey,
                 caller, attempts, slept, waitI, inbox, lastErr,
                 PanelFingerprint, PanelPublicKey, AgentPrivateKey,
                 wpc, wEnc, cpc, closeCalls, connFresh>>

svars == <<workerKind, pmCtxDone, ctxCur, ctxCancelled, cancelSet, g, pmMu, spc,
           RestartDelay>>

cvars == <<cfgPtr, configFile, agentCfg, collector, pmHeartbeatInterval,
           metricsTicker, sinceTick, sinceReload, proc, updaters, handled,
           lastCmd, lastResponse, cmdErr, restartInvoked, reloadEmitted, lastUpdater>>

\* The configuration and command variables a handler that only saves the Config
\* leaves alone.
cvarsButFile == <<cfgPtr, agentCfg, collector, pmHeartbeatInterval,
                  metricsTicker, sinceTick, sinceReload, proc, updaters, handled,
                  lastCmd, lastResponse, cmdErr, restartInvoked, reloadEmitted,
                  lastUpdater>>

\* The update service.
uvars == <<upc, uerr, exe, backup, tarball, sumFile, verified>>

\* What the transport, the process manager and the command layer leave alone.
\* Health beats, the heartbeat goroutine and the monitor's timestamps.
hvars == <<health, sinceHealth, bpc, bctx, bWaited, sendFailed>>

\* The Collector's log channel and its processLogs goroutine.
lvars == <<logChan, buffer, nextLog, accepted, sent, lastBatch>>

\* The Collector's network and disk rate samplers.
ivars == <<lastNetIOCounters, lastNetIOTime, lastDiskIOCounters, lastDiskIOTime,
           ioNow, lastSample>>

\* The Collector's view of the disk partitions.
dvars == <<ExcludedMountPoints, ExcludedFilesystems, partitions, diskData>>

xvars == <<uvars, hvars, lvars, ivars, dvars>>

\* The configuration and command variables handleSessionKey leaves alone.
cvarsButCfg == <<agentCfg, collector, pmHeartbeatInterval,
                 metricsTicker, sinceTick, sinceReload, proc, updaters, handled,
                 lastCmd, lastResponse, cmdErr, restartInvoked, reloadEmitted,
                 lastUpdater>>

\* The configuration and command variables a step that may end the process
\* leaves alone.
cvarsButProc == <<cfgPtr, configFile, agentCfg, collector, pmHeartbeatInterval,
                  metricsTicker, sinceTick, sinceReload, updaters, handled,
                  lastCmd, lastResponse, cmdErr, restartInvoked, reloadEmitted,
                  lastUpdater>>

vars == <<tvars, svars, cvars, xvars>>

\* ------------------------------------------------------------ CryptoKit
\* PEM texts: the PKIX encoding of panel key k, or a text pem.Decode rejects.
Pems == {[k |-> k] : k \in 1..NumPanelKeys} \cup {[k |-> 0]}
\* The empty string (a missing or empty panel_public_key).
NoPem == [k |-> -1]

\* crypto.GetPublicKeyFingerprint: [err, fp]. SHA-256 of the re-encoded DER is a
\* function of the key alone; a text that does not decode is an error.
GetPublicKeyFingerprint(pem) ==
  IF pem.k = 0 THEN [err |-> TRUE, fp |-> 0] ELSE [err |-> FALSE, fp |-> pem.k]

\* Fingerprints a message can advertise: "" (0), the fingerprint of a panel key.
Fingerprints == 0..NumPanelKeys

\* ------------------------------------------------------------- messages
NoFrame == [kind |-> "none", msg |-> ""]

\* Inbound frames as ReadMessage delivers them.  form: "text" is a JSON text frame,
\* "sealed" a binary frame sealed under the session key in use, "garbled" a binary
\* frame that AES-GCM does not open.
KeyExchangeFrames ==
  {[t |-> "key_exchange", form |-> "text", pem |-> p, fp |-> f,
    payload |-> "", key |-> 0] :
      p \in Pems \cup {NoPem}, f \in Fingerprints}
\* AES session keys the panel can send: key k is the one byte k.
SessionKeys == 1..NumSessionKeys
\* What a session_key message carries: "good" is an encrypted_session_key that
\* base64-decodes and RSA-decrypts under the agent's private key to the key in
\* the field key; the other payloads fail at the step they name.
BadSessionKeyPayloads ==
  {"data_not_a_map", "no_encrypted_session_key", "bad_base64", "bad_ciphertext"}
SessionKeyFrame(payload, k) ==
  [t |-> "session_key", form |-> "text", pem |-> NoPem, fp |-> 0,
   payload |-> payload, key |-> k]
AllSessionKeyFrames ==
  {SessionKeyFrame("good", k) : k \in SessionKeys}
    \cup {SessionKeyFrame(b, 0) : b \in BadSessionKeyPayloads}
\* The session_key messages of a panel that uses one session key.
SessionKeyFrames ==
  {SessionKeyFrame("good", 1), SessionKeyFrame("bad_ciphertext", 0)}
PlainFrames ==
  {[t |-> ty, form |-> fo, pem |-> NoPem, fp |-> 0, payload |-> "", key |-> 0] :
      ty \in {"auth_success", "auth_request", "not_json"}, fo \in {"text", "sealed"}}
GarbledFrames ==
  {[t |-> "garbled", form |-> "garbled", pem |-> NoPem, fp |-> 0, payload |-> "", key |-> 0]}
NoMsg == [t |-> "none", form |-> "text", pem |-> NoPem, fp |-> 0, payload |-> "", key |-> 0]

BasicFrames == PlainFrames \cup GarbledFrames \cup SessionKeyFrames
AllFrames == BasicFrames \cup KeyExchangeFrames

\* ------------------------------------------------------------ process manager
\* runHeartbeatProcess and runReporterProcess are the same loop around different
\* bodies (Client.StartHeartbeat, Collector.StartPeriodicReporting).
Kinds == {"heartbeat", "reporter"}
\* Goroutine i is the one the i-th Start...Process call launches; that call
\* also creates context i.
Spawns == 1..MaxSpawn
Unborn == [pc |-> "unborn", ctx |-> 0]

\* A worker context is done when its cancel function was called or when pm.ctx,
\* its parent (context.WithCancel(pm.ctx)), is cancelled.
Cancelled(c) == pmCtxDone \/ c \in ctxCancelled

\* if pm.heartbeatCancel != nil { pm.heartbeatCancel() }
CancelCurrent == IF cancelSet THEN ctxCancelled \cup {ctxCur} ELSE ctxCancelled

\* The number of goroutines of the kind that were launched (wg.Add(1); go run...).
CanSpawn == ctxCur < MaxSpawn

\* StartHeartbeatProcess / StartReporterProcess, under pm.mu: cancel the context
\* in use, make a new one, launch one more goroutine.
StartWorkerProcess ==
  /\ ctxCancelled' = CancelCurrent
  /\ ctxCur' = ctxCur + 1
  /\ cancelSet' = TRUE
  /\ g' = [g EXCEPT ![ctxCur + 1] = [pc |-> "check", ctx |-> 0]]

\* StopHeartbeat / StopReporter, under pm.mu: cancel the context in use and
\* forget its cancel function.
StopWorkerProcess ==
  /\ ctxCancelled' = CancelCurrent
  /\ cancelSet' = FALSE
  /\ UNCHANGED <<ctxCur, g>>

\* ------------------------------------------------------------ Init
\* Agent RSA key pairs: none, the pair the configuration file of an earlier run
\* holds, the pair crypto.GenerateKeyPair makes in this run.
NoKeyPair == 0
FileKeyPair == 1
GeneratedKeyPair == 2

\* The state after NewClient and NewAgent; pinned: the panel fingerprint the
\* configuration file of an earlier run holds (0: none); k: the worker kind.
StartState(pinned, k) ==
  /\ IsConnected = FALSE
  /\ Conn = "nil"
  /\ stopped = FALSE
  /\ EncryptionEnabled = FALSE
  /\ SessionKey = 0
  /\ rpc = "cwr_check"
  /\ caller = "start"
  /\ attempts = 0
  /\ slept = 0
  /\ waitI = 0
  /\ inbox = NoMsg
  /\ lastErr = ""
  /\ PanelFingerprint = pinned
  /\ PanelPublicKey = IF pinned = 0 THEN NoPem ELSE [k |-> pinned]
  /\ AgentPrivateKey \in {NoKeyPair, FileKeyPair}
  /\ wpc = "idle"
  /\ wEnc = FALSE
  /\ cpc = "idle"
  /\ closeCalls = 0
  /\ lastFrame = NoFrame
  /\ lastSend = "none"
  /\ connFresh = FALSE
  /\ workerKind = k
  /\ pmCtxDone = FALSE
  /\ ctxCur = 0
  /\ ctxCancelled = {}
  /\ cancelSet = FALSE
  /\ g = [i \in Spawns |-> Unborn]
  /\ pmMu = "free"
  /\ spc = "idle"
  /\ RestartDelay = InitialRestartDelay

\* ------------------------------------------------------------ Client: send path
closeReturned == closeCalls > 0

Frame(kind, msg) == [kind |-> kind, msg |-> msg]

\* A step that calls no SendMessage writes no frame.
NoOutput == lastFrame' = NoFrame /\ lastSend' = "none"

\* gorilla Conn.WriteMessage on the connection Client.Conn points to: it succeeds
\* on an open connection, fails on a closed one, and on a connection whose link
\* has failed the frame may still be accepted locally.
WriteOutcomes == IF Conn = "open" THEN {TRUE}
                 ELSE IF Conn = "failed" THEN {TRUE, FALSE} ELSE {FALSE}

\* IsConnected after WriteMessage returned an error.
ConnectedAfterWriteError == FALSE

\* Client.writePlainJSON, the whole function under Client.mu.
writePlainJSON(msg, ok) ==
  IF ~IsConnected \/ Conn = "nil"
  THEN /\ lastSend' = "not_connected"
       /\ lastFrame' = NoFrame
       /\ UNCHANGED IsConnected
  ELSE IF ok
  THEN /\ lastFrame' = Frame("text", msg)
       /\ lastSend' = "ok"
       /\ UNCHANGED IsConnected
  ELSE /\ IsConnected' = ConnectedAfterWriteError
       /\ lastSend' = "io_error"
       /\ lastFrame' = NoFrame

\* Client.WriteEncryptedJSON, the whole function under Client.mu.
WriteEncryptedJSON(msg, ok) ==
  IF ~IsConnected \/ Conn = "nil"
  THEN /\ lastSend' = "not_connected"
       /\ lastFrame' = NoFrame
       /\ UNCHANGED IsConnected
  ELSE IF SessionKey = 0
  THEN /\ lastSend' = "no_session_key"
       /\ lastFrame' = NoFrame
       /\ UNCHANGED IsConnected
  ELSE IF ok
  THEN /\ lastFrame' = Frame("binary", msg)
       /\ lastSend' = "ok"
       /\ UNCHANGED IsConnected
  ELSE /\ IsConnected' = ConnectedAfterWriteError
       /\ lastSend' = "io_error"
       /\ lastFrame' = NoFrame

\* Client.SendMessage after its IsEncryptionEnabled() call returned useEnc.
SendAs(msg, useEnc, ok) ==
  IF useEnc THEN WriteEncryptedJSON(msg, ok) ELSE writePlainJSON(msg, ok)

\* Client.SendMessage called by the protocol task: only the protocol task changes
\* EncryptionEnabled, so its check and its write see the same value.
SendMessage(msg) == \E ok \in WriteOutcomes : SendAs(msg, EncryptionEnabled, ok)

\* ------------------------------------------------------------ Client: connect
\* Variant: the limit is compared with > instead of >=.
ReconnectLimitReached_OffByOne(a) == MaxReconnect > 0 /\ a > MaxReconnect

\* ConnectWithRetry: attempts >= c.MaxReconnect (with c.MaxReconnect > 0)
ReconnectLimitReached(a) == MaxReconnect > 0 /\ a >= MaxReconnect

\* Variant: the read loop gives up when a reconnect burst fails.
OnReconnectFailure_Return == "returned"

\* StartReporter, when client.Reconnect() returned an error: wait 12 x 5 s
\* watching IsStopped, then continue the read loop.
OnReconnectFailure == "wait60"

\* ConnectWithRetry returns result ("ok": nil; "max", "stopped": an error) to its
\* caller; its local attempts dies with the call.
CwrReturn(result) ==
  /\ attempts' = 0
  /\ slept' = 0
  /\ waitI' = 0
  /\ IF caller = "start"
     THEN \* Agent.Start: an error ends the start; success launches StartReporter
          /\ rpc' = IF result = "ok" THEN "send_auth" ELSE "start_failed"
          /\ caller' = IF result = "ok" THEN "reconnect" ELSE caller
     ELSE \* StartReporter: err := client.Reconnect()
          /\ rpc' = IF result = "ok" THEN "reauth" ELSE OnReconnectFailure
          /\ UNCHANGED caller

\* ConnectWithRetry: select { case <-c.stopChan: return error; default: ... }
CwrCheck ==
  /\ rpc = "cwr_check"
  /\ IF stopped
     THEN CwrReturn("stopped")
     ELSE /\ rpc' = "cwr_dial"
          /\ UNCHANGED <<caller, waitI, attempts, slept>>
  /\ UNCHANGED <<IsConnected, Conn, stopped, EncryptionEnabled, SessionKey,
                 inbox, lastErr,
                 PanelFingerprint, PanelPublicKey, AgentPrivateKey,
                 wpc, wEnc, cpc, closeCalls,
                 connFresh>>
  /\ NoOutput
  /\ UNCHANGED <<svars, cvars, xvars>>

\* Client.Connect: what a successful Dial does to the encryption state.
EncryptionAfterConnect == EncryptionEnabled
SessionKeyAfterConnect == SessionKey

\* ConnectWithRetry: err := c.Connect(); the dial succeeds (Client.Conn and
\* IsConnected are set under Client.mu) or fails (attempts++).
CwrDial ==
  /\ rpc = "cwr_dial"
  /\ \E ok \in BOOLEAN :
       IF ok
       THEN /\ Conn' = "open"
            /\ IsConnected' = TRUE
            /\ EncryptionEnabled' = EncryptionAfterConnect
            /\ SessionKey' = SessionKeyAfterConnect
            /\ connFresh' = TRUE
            /\ CwrReturn("ok")
       ELSE /\ IF ReconnectLimitReached(attempts + 1)
               THEN CwrReturn("max")
               ELSE /\ rpc' = "cwr_sleep"
                    /\ attempts' = attempts + 1
                    /\ UNCHANGED <<caller, waitI, slept>>
            /\ UNCHANGED <<Conn, IsConnected, EncryptionEnabled, SessionKey, connFresh>>
  /\ UNCHANGED <<stopped, inbox, lastErr,
                 PanelFingerprint, PanelPublicKey, AgentPrivateKey,
                 wpc, wEnc, cpc, closeCalls>>
  /\ NoOutput
  /\ UNCHANGED <<svars, cvars, xvars>>

\* ConnectWithRetry: time.Sleep(c.ReconnectWait)
CwrSleep ==
  /\ rpc = "cwr_sleep"
  /\ slept' = slept + ReconnectWait
  /\ rpc' = "cwr_check"
  /\ UNCHANGED <<IsConnected, Conn, stopped, EncryptionEnabled, SessionKey,
                 caller, attempts, waitI, inbox, lastErr,
                 PanelFingerprint, PanelPublicKey, AgentPrivateKey,
                 wpc, wEnc, cpc, closeCalls,
                 connFresh>>
  /\ NoOutput
  /\ UNCHANGED <<svars, cvars, xvars>>

\* The network: the link of the current connection fails.
LinkFail ==
  /\ Conn = "open"
  /\ Conn' = "failed"
  /\ UNCHANGED <<IsConnected, stopped, EncryptionEnabled, SessionKey,
                 rpc, caller, attempts, slept, waitI, inbox, lastErr,
                 PanelFingerprint, PanelPublicKey, AgentPrivateKey,
                 wpc, wEnc, cpc, closeCalls,
                 connFresh>>
  /\ NoOutput
  /\ UNCHANGED <<svars, cvars, xvars>>

\* ------------------------------------------------------------ Client: encryption
\* Client.EnableEncryption(sessionKey), under Client.mu.
EnableEncryption(key) ==
  /\ SessionKey' = key
  /\ EncryptionEnabled' = TRUE

\* What ReadEncryptedMessage / conn.ReadMessage hand to StartReporter for a frame:
\* "error" (a decrypt error), or the message whose JSON StartReporter parses.
\* With encryption enabled a binary frame is opened with the session key and a
\* text frame passes through; without it the raw bytes of any frame are returned.
Received(f) ==
  IF EncryptionEnabled
  THEN IF f.form = "garbled" THEN "error" ELSE f.t
  ELSE IF f.form = "text" THEN f.t ELSE "not_json"

\* ------------------------------------------------------------ reporter: auth
\* config.SaveConfig(*cfg, configPath) of a handler that only warns when the
\* save fails: the file holds the Config, or is left as it was.
SaveConfigOrWarn(cfg) == \E saved \in BOOLEAN : configFile' = IF saved THEN cfg ELSE configFile

\* Variant: a key pair is generated on every auth emission.
NeedsKeyPair_Always(pair) == TRUE

\* sendAuthMessage: cfg.AgentPublicKey != "" uses the key pair Config holds.
NeedsKeyPair(pair) == pair = NoKeyPair

\* sendAuthMessage: len(cfg.Key) != 36 logs a warning.
KeyLengthWarning(key) == Len(key) # 36

\* sendAuthMessage: nothing is sent when cfg.Key is empty; else generate the
\* agent key pair when Config has none (the generation may fail) and save the
\* Config, then client.SendMessage(authMessage).
sendAuthMessage ==
  IF cfgPtr.key = ""
  THEN UNCHANGED <<AgentPrivateKey, configFile, IsConnected>> /\ NoOutput
  ELSE /\ IF NeedsKeyPair(AgentPrivateKey)
          THEN \E generated \in BOOLEAN :
                 IF generated
                 THEN /\ AgentPrivateKey' = GeneratedKeyPair
                      /\ SaveConfigOrWarn(cfgPtr)
                 ELSE UNCHANGED <<AgentPrivateKey, configFile>>
          ELSE UNCHANGED <<AgentPrivateKey, configFile>>
       /\ SendMessage("auth")

\* StartReporter: sendAuthMessage(client, cfgPtr, logger) before the read loop.
SendAuth ==
  /\ rpc = "send_auth"
  /\ sendAuthMessage
  /\ rpc' = "loop_top"
  /\ UNCHANGED <<Conn, stopped, EncryptionEnabled, SessionKey,
                 caller, attempts, slept, waitI, inbox, lastErr,
                 PanelFingerprint, PanelPublicKey,
                 wpc, wEnc, cpc, closeCalls, connFresh>>
  /\ UNCHANGED <<svars, cvarsButFile, xvars>>

\* ------------------------------------------------------------ reporter: read loop
\* StartReporter, top of the loop: if client.IsStopped() return; conn :=
\* client.GetConnection() (never nil once Agent.Start has connected);
\* conn.SetReadDeadline(now + 90 s).
LoopTop ==
  /\ rpc = "loop_top"
  /\ rpc' = IF stopped THEN "returned" ELSE "read"
  /\ lastErr' = ""
  /\ UNCHANGED <<IsConnected, Conn, stopped, EncryptionEnabled, SessionKey,
                 caller, attempts, slept, waitI, inbox,
                 PanelFingerprint, PanelPublicKey, AgentPrivateKey,
                 wpc, wEnc, cpc, closeCalls,
                 connFresh>>
  /\ NoOutput
  /\ UNCHANGED <<svars, cvars, xvars>>

\* The blocking read delivers a frame of the set F (an auth success only while
\* the goroutines it launches are within the bound).
ReadFrame(F) ==
  /\ rpc = "read"
  /\ Conn = "open"
  /\ \E f \in F :
       /\ Received(f) = "auth_success" => CanSpawn
       /\ IF Received(f) = "error"
          THEN rpc' = "read_err" /\ inbox' = f
          ELSE rpc' = "handle" /\ inbox' = [f EXCEPT !.t = Received(f)]
  /\ UNCHANGED <<IsConnected, Conn, stopped, EncryptionEnabled, SessionKey,
                 caller, attempts, slept, waitI, lastErr,
                 PanelFingerprint, PanelPublicKey, AgentPrivateKey,
                 wpc, wEnc, cpc, closeCalls,
                 connFresh>>
  /\ NoOutput
  /\ UNCHANGED <<svars, cvars, xvars>>

\* The blocking read returns an error: the connection is closed or its link has
\* failed, or nothing arrived before the 90 s read deadline.
ReadFail ==
  /\ rpc = "read"
  /\ rpc' = "read_err"
  /\ UNCHANGED <<IsConnected, Conn, stopped, EncryptionEnabled, SessionKey,
                 caller, attempts, slept, waitI, inbox, lastErr,
                 PanelFingerprint, PanelPublicKey, AgentPrivateKey,
                 wpc, wEnc, cpc, closeCalls,
                 connFresh>>
  /\ NoOutput
  /\ UNCHANGED <<svars, cvars, xvars>>

\* Client.Reconnect, first part under Client.mu: close the connection, IsConnected = false.
ConnAfterClose(c) == IF c = "nil" THEN "nil" ELSE "closed"

\* StartReporter, if err != nil: return when stopped; client.IsConnected = false;
\* client.Reconnect() up to its call of ConnectWithRetry.
ReadErr ==
  /\ rpc = "read_err"
  /\ IF stopped
     THEN /\ rpc' = "returned"
          /\ UNCHANGED <<IsConnected, Conn, attempts, slept>>
     ELSE /\ IsConnected' = FALSE
          /\ Conn' = ConnAfterClose(Conn)
          /\ rpc' = "cwr_check"
          /\ attempts' = 0
          /\ slept' = 0
  /\ inbox' = NoMsg
  /\ UNCHANGED <<stopped, EncryptionEnabled, SessionKey,
                 caller, waitI, lastErr,
                 PanelFingerprint, PanelPublicKey, AgentPrivateKey,
                 wpc, wEnc, cpc, closeCalls,
                 connFresh>>
  /\ NoOutput
  /\ UNCHANGED <<svars, cvars, xvars>>

\* StartReporter after a failed Reconnect: for i := 0; i < 12; i++ { if
\* client.IsStopped() return; time.Sleep(5 s) }; continue.
WaitRound ==
  /\ rpc = "wait60"
  /\ IF waitI < WaitRounds
     THEN IF stopped
          THEN rpc' = "returned" /\ UNCHANGED waitI
          ELSE waitI' = waitI + 1 /\ UNCHANGED rpc
     ELSE rpc' = "loop_top" /\ waitI' = 0
  /\ UNCHANGED <<IsConnected, Conn, stopped, EncryptionEnabled, SessionKey,
                 caller, attempts, slept, inbox, lastErr,
                 PanelFingerprint, PanelPublicKey, AgentPrivateKey,
                 wpc, wEnc, cpc, closeCalls,
                 connFresh>>
  /\ NoOutput
  /\ UNCHANGED <<svars, cvars, xvars>>

\* StartReporter after a successful Reconnect: sendAuthMessage, then call
\* callbacks.OnDisconnect().
Reauth ==
  /\ rpc = "reauth"
  /\ sendAuthMessage
  /\ rpc' = "on_disconnect"
  /\ UNCHANGED <<Conn, stopped, EncryptionEnabled, SessionKey,
                 caller, attempts, slept, waitI, inbox, lastErr,
                 PanelFingerprint, PanelPublicKey,
                 wpc, wEnc, cpc, closeCalls, connFresh>>
  /\ UNCHANGED <<svars, cvars, xvars>>

\* Agent.Start's OnDisconnect callback: pm.StopHeartbeat(); pm.StopReporter().
\* Each takes pm.mu, so the protocol task waits here while pm.mu is held.
OnDisconnect ==
  /\ rpc = "on_disconnect"
  /\ pmMu = "free"
  /\ StopWorkerProcess
  /\ rpc' = "loop_top"
  /\ UNCHANGED <<tvarsButRpc, cvars, xvars>>
  /\ NoOutput
  /\ UNCHANGED <<workerKind, RestartDelay, pmCtxDone, pmMu, spc>>

\* ------------------------------------------------------------ reporter: handlers
\* StartReporter: json.Unmarshal(message) fails: log and continue.
HandleNotJSON ==
  /\ rpc = "handle"
  /\ inbox.t = "not_json"
  /\ rpc' = "loop_top"
  /\ inbox' = NoMsg
  /\ UNCHANGED <<IsConnected, Conn, stopped, EncryptionEnabled, SessionKey,
                 caller, attempts, slept, waitI, lastErr,
                 PanelFingerprint, PanelPublicKey, AgentPrivateKey,
                 wpc, wEnc, cpc, closeCalls,
                 connFresh>>
  /\ NoOutput
  /\ UNCHANGED <<svars, cvars, xvars>>

\* Variant: the pinned fingerprint is not compared with the advertised one.
PinMismatch_Never(cfgFp, advFp) == FALSE

\* handleKeyExchange: if cfg.PanelFingerprint != "" { if cfg.PanelFingerprint !=
\* panelFingerprint { return error } }
PinMismatch(cfgFp, advFp) == cfgFp # 0 /\ cfgFp # advFp

\* handleKeyExchange: cfg.PanelFingerprint after the pinning step, which runs
\* before the received key's fingerprint is computed.
PinnedAfterCheck(cfgFp, advFp) == IF cfgFp # 0 THEN cfgFp ELSE advFp

\* handleKeyExchange: if receivedFingerprint != panelFingerprint { return error }
ReceivedMismatch(received, advFp) == received # advFp

\* Variant: the advertised fingerprint is stored without the comparison with the
\* pinned one.
handleKeyExchange_Repin(cfgFp, cfgKey, pem, advFp) ==
  IF pem = NoPem
  THEN [err |-> "missing_panel_public_key", fp |-> cfgFp, key |-> cfgKey]
  ELSE IF advFp = 0
  THEN [err |-> "missing_panel_fingerprint", fp |-> cfgFp, key |-> cfgKey]
  ELSE LET r == GetPublicKeyFingerprint(pem)
       IN IF r.err
          THEN [err |-> "fingerprint_error", fp |-> advFp, key |-> cfgKey]
          ELSE IF ReceivedMismatch(r.fp, advFp)
          THEN [err |-> "fingerprint_verify_failed", fp |-> advFp, key |-> cfgKey]
          ELSE [err |-> "", fp |-> advFp, key |-> pem]

\* handleKeyExchange(jsonData, client, cfg, logger): the error it returns and the
\* two Config fields it leaves.
handleKeyExchange(cfgFp, cfgKey, pem, advFp) ==
  IF pem = NoPem
  THEN [err |-> "missing_panel_public_key", fp |-> cfgFp, key |-> cfgKey]
  ELSE IF advFp = 0
  THEN [err |-> "missing_panel_fingerprint", fp |-> cfgFp, key |-> cfgKey]
  ELSE IF PinMismatch(cfgFp, advFp)
  THEN [err |-> "fingerprint_mismatch", fp |-> cfgFp, key |-> cfgKey]
  ELSE LET pinned == PinnedAfterCheck(cfgFp, advFp)
           r == GetPublicKeyFingerprint(pem)
       IN IF r.err
          THEN [err |-> "fingerprint_error", fp |-> pinned, key |-> cfgKey]
          ELSE IF ReceivedMismatch(r.fp, advFp)
          THEN [err |-> "fingerprint_verify_failed", fp |-> pinned, key |-> cfgKey]
          ELSE [err |-> "", fp |-> pinned, key |-> pem]

\* StartReporter: typeValue == "key_exchange" && statusValue == "success"
HandleKeyExchange ==
  /\ rpc = "handle"
  /\ inbox.t = "key_exchange"
  /\ LET r == handleKeyExchange(PanelFingerprint, PanelPublicKey, inbox.pem, inbox.fp)
     IN /\ PanelFingerprint' = r.fp
        /\ PanelPublicKey' = r.key
        /\ lastErr' = r.err
        /\ IF r.err = "" THEN SaveConfigOrWarn(cfgPtr) ELSE UNCHANGED configFile
  /\ rpc' = "loop_top"
  /\ inbox' = NoMsg
  /\ UNCHANGED <<IsConnected, Conn, stopped, EncryptionEnabled, SessionKey,
                 caller, attempts, slept, waitI,
                 AgentPrivateKey, wpc, wEnc, cpc, closeCalls,
                 connFresh>>
  /\ NoOutput
  /\ UNCHANGED <<svars, cvarsButFile, xvars>>

\* base64.StdEncoding.EncodeToString of the one-byte key k.
EncodeToString(k) == <<"AQ==", "Ag==", "Aw==", "BA==">>[k]

\* Variant: the session key is put to use whatever the decoding returned.
SessionKeyAccepted_Always(r) == TRUE

\* handleSessionKey proceeds to EnableEncryption only when no step returned an error.
SessionKeyAccepted(r) == r.err = ""

\* handleSessionKey up to crypto.DecryptWithPrivateKey: [err, key].
DecryptSessionKey(pair, f) ==
  IF pair = NoKeyPair THEN [err |-> "missing_agent_private_key", key |-> 0]
  ELSE IF f.payload # "good" THEN [err |-> f.payload, key |-> 0]
  ELSE [err |-> "", key |-> f.key]

\* StartReporter: typeValue == "session_key" && statusValue == "success":
\* handleSessionKey.
HandleSessionKey ==
  /\ rpc = "handle"
  /\ inbox.t = "session_key"
  /\ LET r == DecryptSessionKey(AgentPrivateKey, inbox)
     IN /\ lastErr' = r.err
        /\ IF SessionKeyAccepted(r)
           THEN /\ EnableEncryption(r.key)
                /\ connFresh' = FALSE
                /\ cfgPtr' = [cfgPtr EXCEPT
                                !.session_key = IF r.key = 0 THEN "" ELSE EncodeToString(r.key),
                                !.encryption_enabled = TRUE]
                /\ SaveConfigOrWarn(cfgPtr')
           ELSE UNCHANGED <<SessionKey, EncryptionEnabled, connFresh, cfgPtr, configFile>>
  /\ rpc' = "loop_top"
  /\ inbox' = NoMsg
  /\ UNCHANGED <<IsConnected, Conn, stopped,
                 caller, attempts, slept, waitI,
                 PanelFingerprint, PanelPublicKey, AgentPrivateKey,
                 wpc, wEnc, cpc, closeCalls>>
  /\ NoOutput
  /\ UNCHANGED <<svars, cvarsButCfg, xvars>>

\* StartReporter: typeValue == "auth" && statusValue == "success":
\* sendConfigToPanel, then call callbacks.OnAuthSuccess().
HandleAuthSuccess ==
  /\ rpc = "handle"
  /\ inbox.t = "auth_success"
  /\ SendMessage("agent_config")
  /\ rpc' = "on_auth_success"
  /\ inbox' = NoMsg
  /\ UNCHANGED <<Conn, stopped, EncryptionEnabled, SessionKey,
                 caller, attempts, slept, waitI, lastErr,
                 PanelFingerprint, PanelPublicKey, AgentPrivateKey,
                 wpc, wEnc, cpc, closeCalls, connFresh>>
  /\ UNCHANGED <<svars, cvars, xvars>>

\* Agent.Start's OnAuthSuccess callback: pm.StartHeartbeatProcess();
\* pm.StartReporterProcess(). Each takes pm.mu, so the protocol task waits here
\* while pm.mu is held.
OnAuthSuccess ==
  /\ rpc = "on_auth_success"
  /\ pmMu = "free"
  /\ CanSpawn
  /\ StartWorkerProcess
  /\ rpc' = "loop_top"
  /\ UNCHANGED <<tvarsButRpc, cvars, xvars>>
  /\ NoOutput
  /\ UNCHANGED <<workerKind, RestartDelay, pmCtxDone, pmMu, spc>>

\* StartReporter: a message of type "auth" without status: sendAuthMessage.
HandleAuthRequest ==
  /\ rpc = "handle"
  /\ inbox.t = "auth_request"
  /\ sendAuthMessage
  /\ rpc' = "loop_top"
  /\ inbox' = NoMsg
  /\ UNCHANGED <<Conn, stopped, EncryptionEnabled, SessionKey,
                 caller, attempts, slept, waitI, lastErr,
                 PanelFingerprint, PanelPublicKey,
                 wpc, wEnc, cpc, closeCalls, connFresh>>
  /\ UNCHANGED <<svars, cvars, xvars>>

\* ------------------------------------------------------------ concurrent sender
\* Client.SendMessage called by a worker: c.IsEncryptionEnabled() under Client.mu,
\* which is released before the write path takes it again.
WorkerCheckEncryption ==
  /\ wpc = "idle"
  /\ cancelSet
  /\ wEnc' = EncryptionEnabled
  /\ wpc' = "write"
  /\ UNCHANGED <<IsConnected, Conn, stopped, EncryptionEnabled, SessionKey,
                 rpc, caller, attempts, slept, waitI, inbox, lastErr,
                 PanelFingerprint, PanelPublicKey, AgentPrivateKey,
                 cpc, closeCalls, connFresh>>
  /\ NoOutput
  /\ UNCHANGED <<svars, cvars, xvars>>

\* The write path the worker's SendMessage chose.
WorkerWrite ==
  /\ wpc = "write"
  /\ \E ok \in WriteOutcomes : SendAs("hello", wEnc, ok)
  /\ wpc' = "idle"
  /\ UNCHANGED <<Conn, stopped, EncryptionEnabled, SessionKey,
                 rpc, caller, attempts, slept, waitI, inbox, lastErr,
                 PanelFingerprint, PanelPublicKey, AgentPrivateKey,
                 wEnc, cpc, closeCalls, connFresh>>
  /\ UNCHANGED <<svars, cvars, xvars>>

\* ------------------------------------------------------------ closer
\* Client.Close, first region under Client.mu: return when stopChan is already
\* closed, else close(c.stopChan). Agent.Stop runs once Agent.Start has returned.
CloseBegin ==
  /\ cpc = "idle"
  /\ caller = "reconnect"
  /\ closeCalls < MaxCloseCalls
  /\ IF stopped
     THEN closeCalls' = closeCalls + 1 /\ UNCHANGED <<stopped, cpc>>
     ELSE stopped' = TRUE /\ cpc' = "close_conn" /\ UNCHANGED closeCalls
  /\ UNCHANGED <<IsConnected, Conn, EncryptionEnabled, SessionKey,
                 rpc, caller, attempts, slept, waitI, inbox, lastErr,
                 PanelFingerprint, PanelPublicKey, AgentPrivateKey,
                 wpc, wEnc, connFresh>>
  /\ NoOutput
  /\ UNCHANGED <<svars, cvars, xvars>>

\* Client.Close, second region under Client.mu: c.Conn.Close(); c.IsConnected = false.
CloseFinish ==
  /\ cpc = "close_conn"
  /\ Conn' = ConnAfterClose(Conn)
  /\ IsConnected' = FALSE
  /\ cpc' = "idle"
  /\ closeCalls' = closeCalls + 1
  /\ UNCHANGED <<stopped, EncryptionEnabled, SessionKey,
                 rpc, caller, attempts, slept, waitI, inbox, lastErr,
                 PanelFingerprint, PanelPublicKey, AgentPrivateKey,
                 wpc, wEnc, connFresh>>
  /\ NoOutput
  /\ UNCHANGED <<svars, cvars, xvars>>

\* ------------------------------------------------------------ monitor
\* A step of the process manager: the protocol task does not move, no frame is written.
ProtocolIdle == UNCHANGED <<tvarsButRpc, rpc, cvars, xvars>> /\ NoOutput

\* MonitorProcesses, a ticker case whose worker has sent no healthy beat for more
\* than 60 s (120 s): restartHeartbeat / restartReporter. It locks pm.mu, cancels
\* the context in use and calls Start...Process, which locks pm.mu again:
\* sync.Mutex is not reentrant, so the monitor goroutine stays there holding
\* pm.mu. Agent.Start launches the monitor once ConnectWithRetry has succeeded.
MonitorRestart ==
  /\ caller = "reconnect"
  /\ ~pmCtxDone
  /\ pmMu = "free"
  /\ ctxCancelled' = CancelCurrent
  /\ pmMu' = "monitor"
  /\ UNCHANGED <<workerKind, RestartDelay, pmCtxDone, ctxCur, cancelSet, g, spc>>
  /\ ProtocolIdle

\* ------------------------------------------------------------ worker loops
\* runHeartbeatProcess / runReporterProcess, goroutine i, top of the loop:
\* return when pm.ctx is done; sleep the restart delay when the client is not
\* connected; else call the body with the context pm.heartbeatCtx /
\* pm.reporterCtx holds at this moment.
WorkerLoopCheck(i) ==
  /\ g[i].pc = "check"
  /\ g' = [g EXCEPT ![i] =
            IF pmCtxDone THEN [pc |-> "exited", ctx |-> 0]
            ELSE IF ~IsConnected THEN [pc |-> "sleep", ctx |-> 0]
            ELSE [pc |-> "body", ctx |-> ctxCur]]
  /\ RestartDelay' = IF ~pmCtxDone /\ IsConnected THEN InitialRestartDelay
                     ELSE RestartDelay
  /\ UNCHANGED <<workerKind, pmCtxDone, ctxCur, ctxCancelled, cancelSet, pmMu, spc>>
  /\ ProtocolIdle

\* The body returns: Client.StartHeartbeat when its context is done, or when the
\* client stays disconnected (5 s at its start, 30 s later on);
\* Collector.StartPeriodicReporting only when its context is done.
BodyMayReturn(i) ==
  \/ Cancelled(g[i].ctx)
  \/ workerKind = "heartbeat" /\ ~IsConnected

\* runHeartbeatProcess / runReporterProcess after the body returned: return when
\* pm.ctx is done, else sleep the restart delay.
WorkerBodyReturn(i) ==
  /\ g[i].pc = "body"
  /\ BodyMayReturn(i)
  /\ g' = [g EXCEPT ![i] =
            IF pmCtxDone THEN [pc |-> "exited", ctx |-> 0]
            ELSE [pc |-> "sleep", ctx |-> 0]]
  /\ UNCHANGED <<workerKind, RestartDelay, pmCtxDone, ctxCur, ctxCancelled, cancelSet, pmMu, spc>>
  /\ ProtocolIdle

\* exponentialBackoff: *delay *= 2
BackoffDouble(d) == d * 2

\* exponentialBackoff: if *delay > pm.maxRestartDelay { *delay = pm.maxRestartDelay }
BackoffClamp(d) == IF d > MaxRestartDelay THEN MaxRestartDelay ELSE d

\* time.Sleep(restart delay) is over; exponentialBackoff, first statement. The
\* delay field is shared by every goroutine of the kind and by the monitor and
\* is accessed without a lock, so the two statements are two steps.
WorkerWake(i) ==
  /\ g[i].pc = "sleep"
  /\ RestartDelay' = BackoffDouble(RestartDelay)
  /\ g' = [g EXCEPT ![i] = [pc |-> "clamp", ctx |-> 0]]
  /\ UNCHANGED <<workerKind, pmCtxDone, ctxCur, ctxCancelled, cancelSet, pmMu, spc>>
  /\ ProtocolIdle

\* exponentialBackoff, second statement; then continue with the next iteration.
WorkerClamp(i) ==
  /\ g[i].pc = "clamp"
  /\ RestartDelay' = BackoffClamp(RestartDelay)
  /\ g' = [g EXCEPT ![i] = [pc |-> "check", ctx |-> 0]]
  /\ UNCHANGED <<workerKind, pmCtxDone, ctxCur, ctxCancelled, cancelSet, pmMu, spc>>
  /\ ProtocolIdle

\* ------------------------------------------------------------ shutdown
\* ProcessManager.Shutdown (called by Agent.Stop): pm.cancel().
ShutdownCancel ==
  /\ spc = "idle"
  /\ caller = "reconnect"
  /\ pmCtxDone' = TRUE
  /\ spc' = "lock"
  /\ UNCHANGED <<workerKind, RestartDelay, ctxCur, ctxCancelled, cancelSet, g, pmMu>>
  /\ ProtocolIdle

\* ProcessManager.Shutdown, under pm.mu: call the cancel functions that are set.
ShutdownStopWorkers ==
  /\ spc = "lock"
  /\ pmMu = "free"
  /\ ctxCancelled' = CancelCurrent
  /\ spc' = "wait"
  /\ UNCHANGED <<workerKind, RestartDelay, pmCtxDone, ctxCur, cancelSet, g, pmMu>>
  /\ ProtocolIdle

\* ProcessManager.Shutdown: pm.wg.Wait() is over, or 10 s have passed.
ShutdownReturn ==
  /\ spc = "wait"
  /\ spc' = "done"
  /\ UNCHANGED <<workerKind, RestartDelay, pmCtxDone, ctxCur, ctxCancelled, cancelSet, g, pmMu>>
  /\ ProtocolIdle

\* ------------------------------------------------------------ config.Config
\* The cadence fields of Config, by their JSON names.
Cadences == {"metrics_interval", "detail_interval", "system_interval",
             "heartbeat_interval"}

DefaultTimezone == "Asia/Shanghai"
CurrentServer == "wss://panel-a"
OtherServer == "wss://panel-b"
CurrentKey == "00000000-0000-0000-0000-00000000000a"
OtherKey == "key-b"

\* The configuration file of an installation whose four cadence lines all hold
\* v (0: the lines are missing).
FileWith(v) ==
  [metrics_interval |-> v, detail_interval |-> v, system_interval |-> v,
   heartbeat_interval |-> v, server |-> CurrentServer, key |-> CurrentKey,
   timezone |-> "", session_key |-> "", encryption_enabled |-> FALSE]

OrDefault(v, def) == IF v <= 0 THEN def ELSE v

\* config.LoadConfigFromFile on a file that exists and parses.
LoadConfigFromFile(file) ==
  [file EXCEPT
     !.metrics_interval = OrDefault(@, DefaultMetricsInterval),
     !.detail_interval = OrDefault(@, DefaultDetailInterval),
     !.system_interval = OrDefault(@, DefaultSystemInterval),
     !.heartbeat_interval = OrDefault(@, DefaultHeartbeatInterval),
     !.timezone = IF @ = "" THEN DefaultTimezone ELSE @]

\* collector.NewCollector / Collector.UpdateIntervals: the three intervals.
Intervals(cfg) ==
  [metrics_interval |-> cfg.metrics_interval,
   detail_interval |-> cfg.detail_interval,
   system_interval |-> cfg.system_interval]

\* ------------------------------------------------------------ commands
\* A JSON number num/den, as encoding/json decodes it into a float64; den = 0
\* marks a field that is missing or does not hold a number.
JsonNumbers == {[num |-> n, den |-> d] : n \in (-1)..MaxNum, d \in 1..MaxDen}
Absent == [num |-> 0, den |-> 0]

\* The type assertion x.(float64).
IsFloat64(x) == x.den # 0

\* Go's int(x) of a float64: the fraction is discarded (truncation toward zero).
GoInt(x) == IF x.num >= 0 THEN x.num \div x.den ELSE -((-x.num) \div x.den)

\* The guard of the four cadence merges: ok && x > 0.
CadenceAccepted_Always(x) == IsFloat64(x)

CadenceAccepted(x) == IsFloat64(x) /\ x.num > 0

MergeCadence(old, x) == IF CadenceAccepted(x) THEN GoInt(x) ELSE old

\* The data object of a command ("" : the string field is missing or empty).
EmptyData ==
  [isMap |-> TRUE,
   metrics_interval |-> Absent, detail_interval |-> Absent,
   system_interval |-> Absent, heartbeat_interval |-> Absent,
   timezone |-> "", server |-> "", key |-> "", version |-> ""]

NotAMap == [EmptyData EXCEPT !.isMap = FALSE]

\* update_config data that carry at most one cadence, with or without a timezone.
CadenceDatas ==
  {[EmptyData EXCEPT ![c] = x, !.timezone = tz] :
     c \in Cadences, x \in JsonNumbers \cup {Absent}, tz \in {"", DefaultTimezone}}

\* update_config data that carry a server, a key and a timezone, or none.
ServerKeyDatas ==
  {[EmptyData EXCEPT !.timezone = tz, !.server = s, !.key = k] :
     tz \in {"", DefaultTimezone},
     s \in {"", CurrentServer, OtherServer},
     k \in {"", CurrentKey, OtherKey}}

\* update_config data that carry a metrics_interval only.
MetricsDatas == {[EmptyData EXCEPT !.metrics_interval = x] : x \in JsonNumbers}

UpdateConfigDatas == CadenceDatas \cup ServerKeyDatas \cup {NotAMap}

UpdateDatas == {NotAMap, EmptyData, [EmptyData EXCEPT !.version = "v2"]}

NoCmd == [command |-> "none", data |-> EmptyData]
NoResponse == [command |-> "none", status |-> "none", message |-> ""]

\* update_config: the merge of the data into *cfgPtr (log_path left out).
UpdateConfigMerge(cfg, d) ==
  [cfg EXCEPT
     !.timezone = IF d.timezone # "" THEN d.timezone ELSE @,
     !.metrics_interval = MergeCadence(@, d.metrics_interval),
     !.detail_interval = MergeCadence(@, d.detail_interval),
     !.system_interval = MergeCadence(@, d.system_interval),
     !.heartbeat_interval = MergeCadence(@, d.heartbeat_interval)]

\* update_config: configUpdated after the merge.
ConfigUpdated(d) ==
  d.timezone # "" \/ \E c \in Cadences : CadenceAccepted(d[c])

\* update_config: needRestart, computed after a successful save.
NeedRestart(cfg, d) ==
  \/ d.server # "" /\ d.server # cfg.server
  \/ d.key # "" /\ d.key # cfg.key

\* The ways the update_config handler can end on data d: the Config and the
\* file it leaves, the command_response it sends, the error that occurred, and
\* whether it called restartAgent or OnReload and how the process goes on.
UpdateConfigOutcomes(cfg, file, d) ==
  LET merged == UpdateConfigMerge(cfg, d)
      Out(c, f, st, msg, err, rs, rl, ex) ==
        [cfg |-> c, file |-> f, status |-> st, message |-> msg, err |-> err,
         restart |-> rs, reload |-> rl, exit |-> ex]
  IN IF ~d.isMap
     THEN {Out(cfg, file, "error", "bad_data", "bad_data", FALSE, FALSE, "running")}
     ELSE IF ~ConfigUpdated(d)
     THEN {Out(merged, file, "success", "unchanged", "", FALSE, FALSE, "running")}
     ELSE {Out(merged, file, "error", "save_failed", "save_failed", FALSE, FALSE, "running")}
          \cup
          IF NeedRestart(merged, d)
          THEN {Out(merged, merged, "success", "restarting", "", TRUE, FALSE, "exit0"),
                Out(merged, merged, "success", "restarting", "restart_failed", TRUE, FALSE, "exit1")}
          ELSE {Out(merged, merged, "success", "reloaded", "", FALSE, TRUE, "running")}

\* The state after config.LoadConfigFromFile, agent.NewAgent and
\* StartReporter's cfgPtr := &cfg, on the configuration file `file`.
ConfigStart(file) ==
  /\ configFile = file
  /\ cfgPtr = LoadConfigFromFile(file)
  /\ agentCfg = LoadConfigFromFile(file)
  /\ collector = Intervals(LoadConfigFromFile(file))
  /\ pmHeartbeatInterval = LoadConfigFromFile(file).heartbeat_interval
  /\ metricsTicker = 0
  /\ sinceTick = 0
  /\ sinceReload = -1
  /\ proc = "running"
  /\ updaters = 0
  /\ handled = 0
  /\ lastCmd = NoCmd
  /\ lastResponse = NoResponse
  /\ cmdErr = ""
  /\ restartInvoked = FALSE
  /\ reloadEmitted = FALSE
  /\ lastUpdater = "none"

\* What a command handler of the read loop leaves alone.
HandlerFrame ==
  /\ UNCHANGED <<Conn, stopped, EncryptionEnabled, SessionKey,
                 caller, attempts, slept, waitI, inbox, lastErr,
                 PanelFingerprint, PanelPublicKey, AgentPrivateKey,
                 wpc, wEnc, cpc, closeCalls, connFresh>>
  /\ UNCHANGED <<svars, xvars>>
  /\ UNCHANGED <<metricsTicker, sinceTick, lastUpdater>>

\* The blocking read has delivered a command frame (the link may have failed
\* since) and the handler runs.
CommandArrives ==
  /\ rpc = "read"
  /\ Conn \in {"open", "failed"}
  /\ proc = "running"
  /\ handled < MaxCommands
  /\ handled' = handled + 1

\* client.SendMessage of a command_response.
Respond(command, status, message) ==
  /\ SendMessage("command_response")
  /\ lastResponse' = [command |-> command, status |-> status, message |-> message]

\* os.Exit: every goroutine of the process ends.
ProcessAfter(exit) ==
  /\ proc' = exit
  /\ rpc' = IF exit = "running" THEN "loop_top" ELSE "exited"

\* Agent.Reload, called through callbacks.OnReload, on the file just saved.
Reload(file) ==
  LET oldCfg == agentCfg
      newCfg == LoadConfigFromFile(file)
      intervalsChanged == Intervals(oldCfg) # Intervals(newCfg)
  IN /\ agentCfg' = newCfg
     /\ collector' = IF intervalsChanged THEN Intervals(newCfg) ELSE collector
     /\ pmHeartbeatInterval' =
          IF oldCfg.heartbeat_interval # newCfg.heartbeat_interval
          THEN newCfg.heartbeat_interval ELSE pmHeartbeatInterval
     /\ sinceReload' =
          IF /\ intervalsChanged
             /\ metricsTicker > 0
             /\ collector.metrics_interval # newCfg.metrics_interval
          THEN 0 ELSE sinceReload

\* StartReporter, command "restart": reply, sleep 500 ms, restartAgent, os.Exit.
CmdRestart ==
  /\ CommandArrives
  /\ lastCmd' = [command |-> "restart", data |-> EmptyData]
  /\ Respond("restart", "success", "restarting")
  /\ restartInvoked' = TRUE
  /\ reloadEmitted' = FALSE
  /\ \E restartOk \in BOOLEAN :
       /\ cmdErr' = IF restartOk THEN "" ELSE "restart_failed"
       /\ ProcessAfter(IF restartOk THEN "exit0" ELSE "exit1")
  /\ UNCHANGED <<cfgPtr, configFile, agentCfg, collector, pmHeartbeatInterval,
                 sinceReload, updaters>>
  /\ HandlerFrame

\* StartReporter, command "update_config" with data d: merge, SaveConfig, then
\* either the restart or OnReload, and the command_response.
CmdUpdateConfig(d) ==
  /\ CommandArrives
  /\ lastCmd' = [command |-> "update_config", data |-> d]
  /\ \E o \in UpdateConfigOutcomes(cfgPtr, configFile, d) :
       /\ cfgPtr' = o.cfg
       /\ configFile' = o.file
       /\ Respond("update_config", o.status, o.message)
       /\ cmdErr' = o.err
       /\ restartInvoked' = o.restart
       /\ reloadEmitted' = o.reload
       /\ ProcessAfter(o.exit)
       /\ IF o.reload
          THEN Reload(o.file)
          ELSE UNCHANGED <<agentCfg, collector, pmHeartbeatInterval, sinceReload>>
  /\ UNCHANGED updaters
  /\ HandlerFrame

\* StartReporter, command "update" with data d: reply, then launch the
\* goroutine that runs UpdateService.UpdateAgent.
CmdUpdate(d) ==
  /\ CommandArrives
  /\ lastCmd' = [command |-> "update", data |-> d]
  /\ IF ~d.isMap
     THEN /\ Respond("update", "error", "bad_data")
          /\ cmdErr' = "bad_data"
          /\ UNCHANGED updaters
     ELSE IF d.version = ""
     THEN /\ Respond("update", "error", "no_version")
          /\ cmdErr' = "no_version"
          /\ UNCHANGED updaters
     ELSE /\ Respond("update", "success", "started")
          /\ cmdErr' = ""
          /\ updaters' = updaters + 1
  /\ restartInvoked' = FALSE
  /\ reloadEmitted' = FALSE
  /\ ProcessAfter("running")
  /\ UNCHANGED <<cfgPtr, configFile, agentCfg, collector, pmHeartbeatInterval,
                 sinceReload>>
  /\ HandlerFrame

\* What a step of another goroutine than the read loop leaves alone.
BackgroundFrame ==
  /\ UNCHANGED <<Conn, stopped, EncryptionEnabled, SessionKey,
                 caller, attempts, slept, waitI, inbox, lastErr,
                 PanelFingerprint, PanelPublicKey, AgentPrivateKey,
                 wpc, wEnc, cpc, closeCalls, connFresh>>
  /\ UNCHANGED <<svars, uvars, lvars, ivars, dvars>>
  /\ UNCHANGED <<cfgPtr, configFile, agentCfg, collector, pmHeartbeatInterval,
                 handled>>
  /\ lastCmd' = NoCmd
  /\ restartInvoked' = FALSE
  /\ reloadEmitted' = FALSE

\* The update goroutine: UpdateAgent returns an error (a download, checksum,
\* unpack or replace step failed, or restartApplication could not start the new
\* process) and the goroutine sends the error response.
UpdaterFail ==
  /\ proc = "running"
  /\ updaters > 0
  /\ updaters' = updaters - 1
  /\ Respond("update", "error", "update_failed")
  /\ cmdErr' = "update_failed"
  /\ lastUpdater' = "failed"
  /\ UNCHANGED <<rpc, proc, metricsTicker, sinceTick, sinceReload>>
  /\ UNCHANGED hvars
  /\ BackgroundFrame

\* The update goroutine: every step of UpdateAgent succeeded and
\* restartApplication has started the new process; it ends the current one
\* (interrupt signal or taskkill, then os.Exit(0)) and does not return.
UpdaterRestart ==
  /\ proc = "running"
  /\ updaters > 0
  /\ updaters' = updaters - 1
  /\ proc' = "exit0"
  /\ rpc' = "exited"
  /\ lastResponse' = NoResponse
  /\ cmdErr' = ""
  /\ lastUpdater' = "completed"
  /\ NoOutput
  /\ UNCHANGED <<IsConnected, metricsTicker, sinceTick, sinceReload>>
  /\ UNCHANGED hvars
  /\ BackgroundFrame

\* ------------------------------------------------------------ reporter ticker
\* select { case healthChan <- b: default: }: the beat is queued unless the
\* channel is full.
EmitBeat(b) ==
  health' = IF Len(health) < HealthChanCap THEN Append(health, b) ELSE health

\* Collector.StartPeriodicReporting up to its loop, run by the reporter
\* goroutine the process manager launched: SendSystemInfo and a beat that tells
\* whether it succeeded, then the tickers are created from the intervals the
\* Collector holds.
StartPeriodicReporting ==
  /\ proc = "running"
  /\ rpc \in {"loop_top", "read"}
  /\ IsConnected
  /\ metricsTicker = 0
  /\ SendMessage("system_info")
  /\ metricsTicker' = collector.metrics_interval
  /\ sinceTick' = 0
  /\ lastResponse' = NoResponse
  /\ cmdErr' = ""
  /\ lastUpdater' = "none"
  /\ UNCHANGED <<rpc, proc, updaters, sinceReload>>
  /\ EmitBeat(lastSend' = "ok")
  /\ UNCHANGED <<sinceHealth, bpc, bctx, bWaited, sendFailed>>
  /\ BackgroundFrame

\* One second passes; a ticker that is due fires before more time passes.
Second ==
  /\ proc = "running"
  /\ metricsTicker > 0
  /\ sinceTick < metricsTicker
  /\ sinceTick' = sinceTick + 1
  /\ sinceReload' = IF sinceReload >= 0 THEN sinceReload + 1 ELSE sinceReload
  /\ lastResponse' = NoResponse
  /\ cmdErr' = ""
  /\ lastUpdater' = "none"
  /\ NoOutput
  /\ UNCHANGED <<IsConnected, rpc, proc, updaters, metricsTicker>>
  /\ UNCHANGED hvars
  /\ BackgroundFrame

\* StartPeriodicReporting, case <-metricsTicker.C: SendMetrics; a failure is
\* logged.
MetricsTick ==
  /\ proc = "running"
  /\ metricsTicker > 0
  /\ sinceTick = metricsTicker
  /\ sinceTick' = 0
  /\ sinceReload' = -1
  /\ SendMessage("metrics")
  /\ lastResponse' = NoResponse
  /\ cmdErr' = ""
  /\ lastUpdater' = "none"
  /\ UNCHANGED <<rpc, proc, updaters, metricsTicker>>
  /\ UNCHANGED hvars
  /\ BackgroundFrame

\* ------------------------------------------------------------ health beats
\* No worker body has run and the monitor has just taken its first timestamps.
HealthIdle ==
  /\ health = <<>>
  /\ sinceHealth = 0
  /\ bpc = "unborn"
  /\ bctx = 0
  /\ bWaited = 0
  /\ sendFailed = FALSE

\* The positions of the heartbeat goroutine that are inside Client.StartHeartbeat.
InHeartbeatBody == {"entry", "wait_conn", "loop", "wait_reconnect"}

\* What a step of the heartbeat goroutine that sends nothing leaves alone.
HeartbeatQuiet ==
  /\ UNCHANGED tvars
  /\ UNCHANGED <<cvars, uvars, lvars, ivars, dvars>>
  /\ UNCHANGED <<workerKind, pmCtxDone, ctxCur, ctxCancelled, cancelSet, g, pmMu, spc>>

\* StartHeartbeatProcess has launched the goroutine looked at (the first one).
HbSpawn ==
  /\ workerKind = "heartbeat"
  /\ bpc = "unborn"
  /\ ctxCur > 0
  /\ bpc' = "check"
  /\ UNCHANGED <<health, sinceHealth, bctx, bWaited, sendFailed, RestartDelay>>
  /\ HeartbeatQuiet

\* runHeartbeatProcess, top of the loop: return when pm.ctx is done; without a
\* connection sleep the restart delay; else reset the delay and call
\* StartHeartbeat with the context pm.heartbeatCtx holds.
HbLoopCheck ==
  /\ bpc = "check"
  /\ IF pmCtxDone
     THEN bpc' = "exited" /\ UNCHANGED <<bctx, sendFailed, RestartDelay>>
     ELSE IF ~IsConnected
     THEN bpc' = "sleep" /\ UNCHANGED <<bctx, sendFailed, RestartDelay>>
     ELSE /\ bpc' = "entry"
          /\ bctx' = ctxCur
          /\ sendFailed' = FALSE
          /\ RestartDelay' = InitialRestartDelay
  /\ UNCHANGED <<health, sinceHealth, bWaited>>
  /\ HeartbeatQuiet

\* StartHeartbeat, before its loop: if !c.IsConnected || c.Conn == nil, wait.
HbEntry ==
  /\ bpc = "entry"
  /\ bpc' = IF ~IsConnected \/ Conn = "nil" THEN "wait_conn" ELSE "loop"
  /\ UNCHANGED <<health, sinceHealth, bctx, bWaited, sendFailed, RestartDelay>>
  /\ HeartbeatQuiet

\* StartHeartbeat, the wait at its start: return when the context is done;
\* after 5 s emit an unhealthy beat and return.
HbWaitConn ==
  /\ bpc = "wait_conn"
  /\ bpc' = "sleep"
  /\ \/ Cancelled(bctx) /\ UNCHANGED health
     \/ Len(health) < MaxBeats /\ EmitBeat(FALSE)
  /\ UNCHANGED <<sinceHealth, bctx, bWaited, sendFailed, RestartDelay>>
  /\ HeartbeatQuiet

\* StartHeartbeat, case <-ticker.C: without a connection emit an unhealthy beat
\* and wait for the reconnect; else send "hello" and emit a beat that tells
\* whether the send succeeded.
HbTick ==
  /\ bpc = "loop"
  /\ Len(health) < MaxBeats
  /\ IF ~IsConnected \/ Conn = "nil"
     THEN /\ EmitBeat(FALSE)
          /\ bpc' = "wait_reconnect"
          /\ bWaited' = 0
          /\ UNCHANGED <<IsConnected, sendFailed>>
          /\ NoOutput
     ELSE /\ SendMessage("hello")
          /\ EmitBeat(lastSend' = "ok")
          /\ sendFailed' = (sendFailed \/ lastSend' # "ok")
          /\ UNCHANGED <<bpc, bWaited>>
  /\ UNCHANGED <<sinceHealth, bctx, RestartDelay>>
  /\ UNCHANGED <<Conn, stopped, EncryptionEnabled, SessionKey,
                 rpc, caller, attempts, slept, waitI, inbox, lastErr,
                 PanelFingerprint, PanelPublicKey, AgentPrivateKey,
                 wpc, wEnc, cpc, closeCalls, connFresh>>
  /\ UNCHANGED <<cvars, uvars, lvars, ivars, dvars>>
  /\ UNCHANGED <<workerKind, pmCtxDone, ctxCur, ctxCancelled, cancelSet, g, pmMu, spc>>

\* StartHeartbeat, case <-ctx.Done() of its loop and of the wait for the
\* reconnect: return.
HbCtxDone ==
  /\ bpc \in {"loop", "wait_reconnect"}
  /\ Cancelled(bctx)
  /\ bpc' = "sleep"
  /\ UNCHANGED <<health, sinceHealth, bctx, bWaited, sendFailed, RestartDelay>>
  /\ HeartbeatQuiet

\* StartHeartbeat, the wait for the reconnect, case <-checkTicker.C (every 5 s):
\* go on with the heartbeat when the connection is back.
HbRecheck ==
  /\ bpc = "wait_reconnect"
  /\ bWaited + HeartbeatCheckEvery <= HeartbeatReconnectTimeout
  /\ bWaited' = bWaited + HeartbeatCheckEvery
  /\ bpc' = IF IsConnected /\ Conn # "nil" THEN "loop" ELSE bpc
  /\ UNCHANGED <<health, sinceHealth, bctx, sendFailed, RestartDelay>>
  /\ HeartbeatQuiet

\* StartHeartbeat, the wait for the reconnect, case <-reconnectTimeout (30 s
\* after the wait began, together with the sixth check): return.
HbTimeout ==
  /\ bpc = "wait_reconnect"
  /\ bWaited + HeartbeatCheckEvery >= HeartbeatReconnectTimeout
  /\ bpc' = "sleep"
  /\ UNCHANGED <<health, sinceHealth, bctx, bWaited, sendFailed, RestartDelay>>
  /\ HeartbeatQuiet

\* runHeartbeatProcess after the body returned or without a connection: return
\* when the body returned and pm.ctx is done; else time.Sleep(restart delay),
\* exponentialBackoff, next iteration.
HbBackoff ==
  /\ bpc = "sleep"
  /\ IF pmCtxDone
     THEN bpc' = "exited" /\ UNCHANGED RestartDelay
     ELSE /\ bpc' = "check"
          /\ RestartDelay' = BackoffClamp(BackoffDouble(RestartDelay))
  /\ UNCHANGED <<health, sinceHealth, bctx, bWaited, sendFailed>>
  /\ HeartbeatQuiet

\* MonitorProcesses, case health := <-pm.heartbeatHealth / <-pm.reporterHealth:
\* a healthy beat sets the last-health timestamp to now and the restart delay to
\* 1 s; a failed beat is logged.
MonitorReceive ==
  /\ health # <<>>
  /\ ~pmCtxDone
  /\ pmMu # "monitor"
  /\ health' = Tail(health)
  /\ IF Head(health)
     THEN sinceHealth' = 0 /\ RestartDelay' = InitialRestartDelay
     ELSE UNCHANGED <<sinceHealth, RestartDelay>>
  /\ UNCHANGED <<bpc, bctx, bWaited, sendFailed>>
  /\ HeartbeatQuiet

\* One second passes on the monitor's clock.
HealthSecond ==
  /\ sinceHealth < MaxSilence
  /\ sinceHealth' = sinceHealth + 1
  /\ UNCHANGED <<health, bpc, bctx, bWaited, sendFailed, RestartDelay>>
  /\ HeartbeatQuiet

\* One second passes for the running reporter and on the monitor's clock,
\* which is followed until the reporter's timeout has passed.
WatchSecond ==
  /\ proc = "running"
  /\ metricsTicker > 0
  /\ sinceTick < metricsTicker
  /\ sinceHealth <= ReporterTimeout
  /\ sinceTick' = sinceTick + 1
  /\ sinceHealth' = sinceHealth + 1
  /\ sinceReload' = IF sinceReload >= 0 THEN sinceReload + 1 ELSE sinceReload
  /\ lastResponse' = NoResponse
  /\ cmdErr' = ""
  /\ lastUpdater' = "none"
  /\ NoOutput
  /\ UNCHANGED <<IsConnected, rpc, proc, updaters, metricsTicker>>
  /\ UNCHANGED <<health, bpc, bctx, bWaited, sendFailed>>
  /\ BackgroundFrame

\* StartPeriodicReporting is entered and its SendSystemInfo succeeds.
ReporterStartOk == StartPeriodicReporting /\ lastSend' = "ok"

\* A metrics tick whose send succeeds.
MetricsTickOk == MetricsTick /\ lastSend' = "ok"

\* MonitorProcesses, case <-reporterTicker.C: if time.Since(lastReporterHealth)
\* > 120 s, restartReporter. The ticker's phase is left open: the check can
\* come at any moment.
ReporterWatchdog ==
  /\ sinceHealth > ReporterTimeout
  /\ MonitorRestart

\* ------------------------------------------------------------ log shipping
\* Log records are numbered in the order of the SendLog calls that made them.

\* Variant: the channel takes a record whatever it holds.
ChanAccepts_Always(queued) == TRUE

\* A send on logChan (make(chan ..., 100)) proceeds when fewer than 100 records
\* are queued.
ChanAccepts(queued) == Len(queued) < LogChanCap

\* NewCollector: an empty channel, and processLogs with an empty buffer.
LogIdle ==
  /\ logChan = <<>>
  /\ buffer = <<>>
  /\ nextLog = 0
  /\ accepted = 0
  /\ sent = 0
  /\ lastBatch = <<>>

\* What a step of the log path that sends nothing leaves alone.
LogQuiet == UNCHANGED <<tvars, svars, cvars, uvars, hvars, ivars, dvars>>

\* Collector.SendLog: select { case c.logChan <- record: default: }.
SendLog ==
  /\ nextLog < MaxLogs
  /\ nextLog' = nextLog + 1
  /\ IF ChanAccepts(logChan)
     THEN logChan' = Append(logChan, nextLog + 1) /\ accepted' = accepted + 1
     ELSE UNCHANGED <<logChan, accepted>>
  /\ lastBatch' = <<>>
  /\ UNCHANGED <<buffer, sent>>
  /\ LogQuiet

\* flushLogs(logs): _ = c.Client.SendMessage(agent_log message): the batch is
\* handed to SendMessage and the result is dropped.
flushLogs(logs) ==
  /\ SendMessage("agent_log")
  /\ lastBatch' = logs
  /\ sent' = sent + Len(logs)
  /\ buffer' = <<>>

\* What a step of processLogs leaves alone besides the client it sends through.
ProcessLogsFrame ==
  /\ UNCHANGED <<Conn, stopped, EncryptionEnabled, SessionKey,
                 rpc, caller, attempts, slept, waitI, inbox, lastErr,
                 PanelFingerprint, PanelPublicKey, AgentPrivateKey,
                 wpc, wEnc, cpc, closeCalls, connFresh>>
  /\ UNCHANGED <<svars, cvars, uvars, hvars, ivars, dvars>>

\* processLogs, case log := <-c.logChan: append to the buffer; flush when it
\* holds 10 records.
LogReceive ==
  /\ logChan # <<>>
  /\ logChan' = Tail(logChan)
  /\ LET filled == Append(buffer, Head(logChan))
     IN IF Len(filled) >= LogBatchSize
        THEN flushLogs(filled)
        ELSE /\ buffer' = filled
             /\ lastBatch' = <<>>
             /\ UNCHANGED <<sent, IsConnected>>
             /\ NoOutput
  /\ UNCHANGED <<nextLog, accepted>>
  /\ ProcessLogsFrame

\* processLogs, case <-ticker.C (every second): flush a buffer that is not empty.
LogTick ==
  /\ buffer # <<>>
  /\ flushLogs(buffer)
  /\ UNCHANGED <<logChan, nextLog, accepted>>
  /\ ProcessLogsFrame

\* ------------------------------------------------------------ rate samplers
\* A counter map as the probe returns it: one entry per interface or disk, each
\* with its two byte counters (BytesSent / BytesRecv, ReadBytes / WriteBytes).
\* The counters are uint64 in the source; here they are CounterMod wide.
Counter == 0..(CounterMod - 1)
IOStat == [a : Counter, b : Counter]

RECURSIVE SeqsUpTo(_, _)
SeqsUpTo(S, n) ==
  IF n = 0 THEN {<<>>}
  ELSE LET shorter == SeqsUpTo(S, n - 1)
       IN shorter \cup {Append(q, x) : q \in {r \in shorter : Len(r) = n - 1}, x \in S}

\* What GetNetIOCounters / disk.IOCounters can return without an error.
Probes == SeqsUpTo(IOStat, MaxIfaces)

\* What a probe can return: an error, or a counter map.
ProbeResults == {[failed |-> TRUE, current |-> <<>>]}
                  \cup {[failed |-> FALSE, current |-> m] : m \in Probes}

\* The map fields of Collector: nil after NewCollector, a counter map once stored.
NilCounters == [nil |-> TRUE, m |-> <<>>]
StoredCounters(m) == [nil |-> FALSE, m |-> m]

\* A speed in bytes per second, as the fraction num / den.
ZeroSpeed == [num |-> 0, den |-> 1]
NoSample == [call |-> "none", err |-> FALSE, a |-> ZeroSpeed, b |-> ZeroSpeed]

\* NewCollector leaves both snapshots nil and both times zero.
SamplerIdle ==
  /\ lastNetIOCounters = NilCounters
  /\ lastNetIOTime = 0
  /\ lastDiskIOCounters = NilCounters
  /\ lastDiskIOTime = 0
  /\ ioNow = 1
  /\ lastSample = NoSample

\* for _, counter := range counters { total += counter.X }: uint64 additions.
RECURSIVE SumA(_)
SumA(m) == IF m = <<>> THEN 0 ELSE (Head(m).a + SumA(Tail(m))) % CounterMod
RECURSIVE SumB(_)
SumB(m) == IF m = <<>> THEN 0 ELSE (Head(m).b + SumB(Tail(m))) % CounterMod

\* current - last on uint64.
SubU64(x, y) == (x - y + CounterMod) % CounterMod

\* Variant: no call is treated as the first one.
IsFirstSample_Never(last, lastTime) == FALSE

\* c.lastNetIOCounters == nil || c.lastNetIOTime.IsZero()
IsFirstSample(last, lastTime) == last.nil \/ lastTime = 0

\* timeDiff := time.Since(lastTime).Seconds(); if timeDiff <= 0 { timeDiff = 1.0 },
\* in ticks of 1 / TicksPerSecond s.
timeDiff(lastTime) ==
  LET since == ioNow - lastTime
  IN IF since <= 0 THEN TicksPerSecond ELSE since

\* float64(current - last) / timeDiff
SpeedOf(current, last, lastTime) ==
  [num |-> SubU64(current, last) * TicksPerSecond, den |-> timeDiff(lastTime)]

\* The body both samplers share, under the sampler's mutex: the result and the
\* fields after the call, for a probe that failed (failed) or returned current.
Sampled(call, failed, current, last, lastTime) ==
  IF failed
  THEN [out |-> [call |-> call, err |-> TRUE, a |-> ZeroSpeed, b |-> ZeroSpeed],
        counters |-> last, time |-> lastTime]
  ELSE IF IsFirstSample(last, lastTime)
  THEN [out |-> [call |-> call, err |-> FALSE, a |-> ZeroSpeed, b |-> ZeroSpeed],
        counters |-> StoredCounters(current), time |-> ioNow]
  ELSE [out |-> [call |-> call, err |-> FALSE,
                 a |-> SpeedOf(SumA(current), SumA(last.m), lastTime),
                 b |-> SpeedOf(SumB(current), SumB(last.m), lastTime)],
        counters |-> StoredCounters(current), time |-> ioNow]

\* What a sampler call leaves alone.
SamplerFrame == UNCHANGED <<tvars, svars, cvars, uvars, hvars, lvars, dvars>>

\* Collector.getNetworkSpeed, called by SendMetrics.
getNetworkSpeed ==
  \E p \in ProbeResults :
    LET r == Sampled("net", p.failed, p.current, lastNetIOCounters, lastNetIOTime)
    IN /\ lastSample' = r.out
       /\ lastNetIOCounters' = r.counters
       /\ lastNetIOTime' = r.time
       /\ UNCHANGED <<lastDiskIOCounters, lastDiskIOTime, ioNow>>
       /\ SamplerFrame

\* Collector.getDiskIOSpeed.
getDiskIOSpeed ==
  \E p \in ProbeResults :
    LET r == Sampled("disk", p.failed, p.current, lastDiskIOCounters, lastDiskIOTime)
    IN /\ lastSample' = r.out
       /\ lastDiskIOCounters' = r.counters
       /\ lastDiskIOTime' = r.time
       /\ UNCHANGED <<lastNetIOCounters, lastNetIOTime, ioNow>>
       /\ SamplerFrame

\* Time passes: one tick of 1 / TicksPerSecond s.
IoTick ==
  /\ ioNow < MaxClock
  /\ ioNow' = ioNow + 1
  /\ lastSample' = NoSample
  /\ UNCHANGED <<lastNetIOCounters, lastNetIOTime, lastDiskIOCounters, lastDiskIOTime>>
  /\ SamplerFrame

\* ------------------------------------------------------------ disk partitions
\* Paths are sequences of characters, so that mountPoint[:len(prefix)+1] is a
\* slice of the string.
Root == <<"/">>
PathA == <<"/", "a">>
PathAB == <<"/", "a", "b">>
PathAsubB == <<"/", "a", "/", "b">>

\* Mountpoints GetDiskPart reports, and entries excluded_mount_points holds.
Mountpoints == {PathA, PathAB, PathAsubB}
MountEntries == {Root, PathA}
Fstypes == {"ext4", "tmpfs"}
Devices == {"sda1", "sdb1"}

\* What GetDiskUsage(mountpoint) returns: nil, or a usage with its Total.
NoUsage == [nil |-> TRUE, Total |-> 0]
Usages == {NoUsage} \cup {[nil |-> FALSE, Total |-> t] : t \in 0..1}

\* One partition of GetDiskPart, with the usage GetDiskUsage returns for it.
PartitionStats ==
  [Mountpoint : Mountpoints, Fstype : Fstypes, Device : Devices, usage : Usages]

PartitionLists == SeqsUpTo(PartitionStats, MaxParts)
ExcludedMountLists == SeqsUpTo(MountEntries, MaxExcluded)
ExcludedFsLists == SeqsUpTo({"tmpfs"}, MaxExcluded)

\* GetDiskUsage is asked by mountpoint: partitions with one mountpoint have one
\* usage.
UsageByMountpoint(parts) ==
  \A i, j \in 1..Len(parts) :
    parts[i].Mountpoint = parts[j].Mountpoint => parts[i].usage = parts[j].usage

\* A host that reports no partitions; nothing is excluded, nothing reported yet.
DiskIdle ==
  /\ ExcludedMountPoints = <<>>
  /\ ExcludedFilesystems = <<>>
  /\ partitions = <<>>
  /\ diskData = <<>>

\* Variant: any entry that is a string prefix of the mountpoint excludes it.
MountMatches_Prefix(mountPoint, prefix) ==
  Len(mountPoint) >= Len(prefix) /\ SubSeq(mountPoint, 1, Len(prefix)) = prefix

\* mountPoint == prefix ||
\*   (len(mountPoint) > len(prefix) && mountPoint[:len(prefix)+1] == prefix+"/")
MountMatches(mountPoint, prefix) ==
  \/ mountPoint = prefix
  \/ /\ Len(mountPoint) > Len(prefix)
     /\ SubSeq(mountPoint, 1, Len(prefix) + 1) = Append(prefix, "/")

\* Collector.isVirtualFilesystem
isVirtualFilesystem(mountPoint) ==
  \E i \in 1..Len(ExcludedMountPoints) : MountMatches(mountPoint, ExcludedMountPoints[i])

\* Collector.isExcludedFilesystem
isExcludedFilesystem(fstype) ==
  \E i \in 1..Len(ExcludedFilesystems) : fstype = ExcludedFilesystems[i]

\* Variant: a device is marked as seen as soon as it is met.
SeenAfterSkip_Marked(seen, device) == seen \cup {device}

\* A partition skipped for its usage (nil, or Total 0) leaves seenDevices alone.
SeenAfterSkip(seen, device) == seen

\* The loop of SendDiskInfo over partitions[i..], with seenDevices = seen: the
\* partitions it appends to diskData.
RECURSIVE FilterFrom(_, _, _)
FilterFrom(parts, i, seen) ==
  IF i > Len(parts) THEN <<>>
  ELSE LET p == parts[i]
       IN IF isVirtualFilesystem(p.Mountpoint) THEN FilterFrom(parts, i + 1, seen)
          ELSE IF isExcludedFilesystem(p.Fstype) THEN FilterFrom(parts, i + 1, seen)
          ELSE IF p.Device \in seen THEN FilterFrom(parts, i + 1, seen)
          ELSE IF p.usage.nil \/ p.usage.Total = 0
               THEN FilterFrom(parts, i + 1, SeenAfterSkip(seen, p.Device))
          ELSE <<p>> \o FilterFrom(parts, i + 1, seen \cup {p.Device})

\* seenDevices := make(map[string]bool), then the loop.
filterPartitions(parts) == FilterFrom(parts, 1, {})

\* The entry diskData gets for a partition.
DiskRow(p) == [mount_point |-> p.Mountpoint, device |-> p.Device, total |-> p.usage.Total]

\* What a step of SendDiskInfo leaves alone besides the client it sends through.
DiskFrame ==
  /\ UNCHANGED <<Conn, stopped, EncryptionEnabled, SessionKey,
                 rpc, caller, attempts, slept, waitI, inbox, lastErr,
                 PanelFingerprint, PanelPublicKey, AgentPrivateKey,
                 wpc, wEnc, cpc, closeCalls, connFresh>>
  /\ UNCHANGED <<svars, cvars, uvars, hvars, lvars, ivars>>
  /\ UNCHANGED <<ExcludedMountPoints, ExcludedFilesystems, partitions>>

\* Collector.SendDiskInfo: GetDiskPart, the loop, and the disk_info message.
SendDiskInfo ==
  /\ LET kept == filterPartitions(partitions)
     IN diskData' = [i \in 1..Len(kept) |-> DiskRow(kept[i])]
  /\ SendMessage("disk_info")
  /\ DiskFrame

\* ------------------------------------------------------------ update service
\* Characters of a checksum file: hexadecimal digits in both cases, white space.
HexLower == {"a", "b"}
HexUpper == {"A", "B"}
WhiteSpace == {" "}
SumChars == HexLower \cup HexUpper \cup WhiteSpace

\* The .sha256 files a release can carry, as character sequences.
SumFiles == UNION {[1..n -> SumChars] : n \in 0..MaxSumLen}

\* The tarballs a release can carry.
Tarballs == 1..NumTarballs

\* calculateSHA256: hex.EncodeToString of the digest, lower-case digits; two
\* tarballs have different digests.
calculateSHA256(t) == IF t = 1 THEN <<"a">> ELSE <<"b">>

\* unicode simple folding on the characters of a checksum file.
ToLower(c) == IF c = "A" THEN "a" ELSE IF c = "B" THEN "b" ELSE c

\* strings.EqualFold
EqualFold(s, t) ==
  /\ Len(s) = Len(t)
  /\ \A i \in 1..Len(s) : ToLower(s[i]) = ToLower(t[i])

\* strings.TrimSpace: the text without its leading and trailing white space.
RECURSIVE TrimLeft(_)
TrimLeft(s) ==
  IF s # <<>> /\ Head(s) \in WhiteSpace THEN TrimLeft(Tail(s)) ELSE s

RECURSIVE TrimRight(_)
TrimRight(s) ==
  IF s # <<>> /\ s[Len(s)] \in WhiteSpace
  THEN TrimRight(SubSeq(s, 1, Len(s) - 1)) ELSE s

TrimSpace(s) == TrimRight(TrimLeft(s))

\* The first white-space separated token of a text (the empty text when it has
\* none): what `sha256sum` puts before the file name.
FirstToken(file) ==
  LET t == TrimLeft(file)
      Ends == {i \in 1..Len(t) : t[i] \in WhiteSpace}
      end == IF Ends = {} THEN Len(t) + 1
             ELSE CHOOSE i \in Ends : \A j \in Ends : i <= j
  IN SubSeq(t, 1, end - 1)

\* readSHA256File: strings.TrimSpace(string(data)), the whole file.
readSHA256File(file) == TrimSpace(file)

\* UpdateAgent: !strings.EqualFold(expectedSHA256, actualSHA256) is a mismatch.
ChecksumPasses(file, t) == EqualFold(readSHA256File(file), calculateSHA256(t))

\* copyFile(src, dst) on a source holding content src and a destination holding
\* content dst: it succeeds; os.Open or os.Create fails and the destination is as
\* it was; io.Copy fails after os.Create truncated the destination; Sync fails
\* after the copy.
copyFile(src, dst) ==
  {[err |-> FALSE, dst |-> src],
   [err |-> TRUE, dst |-> dst],
   [err |-> TRUE, dst |-> "partial"],
   [err |-> TRUE, dst |-> src]}

\* No UpdateAgent call has been made.
UpdaterIdle ==
  /\ upc = "idle"
  /\ uerr = ""
  /\ exe = "old"
  /\ backup = "none"
  /\ tarball = 0
  /\ sumFile = <<>>
  /\ verified = FALSE

\* What a step of UpdateAgent leaves alone.
UpdaterFrame == UNCHANGED <<tvars, svars, hvars, lvars, ivars, dvars>>

\* UpdateAgent returns the error e.
UpdateReturns(e) == upc' = "returned" /\ uerr' = e

\* The goroutine of the update command calls updateService.UpdateAgent.
UpdateAgentBegin ==
  /\ upc = "idle"
  /\ proc = "running"
  /\ upc' = "release"
  /\ UNCHANGED <<uerr, exe, backup, tarball, sumFile, verified>>
  /\ UNCHANGED cvars
  /\ UpdaterFrame

\* UpdateAgent: http.Get of the latest release, status code, JSON decoding.
UpdFetchRelease ==
  /\ upc = "release"
  /\ \E ok \in BOOLEAN :
       IF ok THEN upc' = "assets" /\ uerr' = uerr
             ELSE UpdateReturns("release_info_failed")
  /\ UNCHANGED <<exe, backup, tarball, sumFile, verified>>
  /\ UNCHANGED cvars
  /\ UpdaterFrame

\* UpdateAgent: the release's assets hold the tarball and the checksum file of
\* this system, or one of them is missing.
UpdFindAssets ==
  /\ upc = "assets"
  /\ \E found \in BOOLEAN :
       IF found THEN upc' = "download" /\ uerr' = uerr
                ELSE UpdateReturns("asset_missing")
  /\ UNCHANGED <<exe, backup, tarball, sumFile, verified>>
  /\ UNCHANGED cvars
  /\ UpdaterFrame

\* UpdateAgent: downloadFile of the tarball and of the checksum file.
UpdDownload ==
  /\ upc = "download"
  /\ \/ /\ UpdateReturns("download_failed")
        /\ UNCHANGED <<tarball, sumFile>>
     \/ \E t \in Tarballs, f \in SumFiles :
          /\ tarball' = t
          /\ sumFile' = f
          /\ upc' = "verify"
          /\ uerr' = uerr
  /\ UNCHANGED <<exe, backup, verified>>
  /\ UNCHANGED cvars
  /\ UpdaterFrame

\* UpdateAgent: readSHA256File, calculateSHA256 (either may fail to read its
\* file) and the comparison.
UpdVerify ==
  /\ upc = "verify"
  /\ \/ UpdateReturns("checksum_read_failed") /\ UNCHANGED verified
     \/ IF ChecksumPasses(sumFile, tarball)
        THEN upc' = "extract" /\ uerr' = uerr /\ verified' = TRUE
        ELSE UpdateReturns("checksum_mismatch") /\ UNCHANGED verified
  /\ UNCHANGED <<exe, backup, tarball, sumFile>>
  /\ UNCHANGED cvars
  /\ UpdaterFrame

\* UpdateAgent: the extraction directory, extractTarGz, the search for the
\* binary, os.Executable.
UpdExtract ==
  /\ upc = "extract"
  /\ \E ok \in BOOLEAN :
       IF ok THEN upc' = "backup" /\ uerr' = uerr
             ELSE UpdateReturns("extract_failed")
  /\ UNCHANGED <<exe, backup, tarball, sumFile, verified>>
  /\ UNCHANGED cvars
  /\ UpdaterFrame

\* A variant of the backup step that goes on to the replacement whatever
\* copyFile returned.
UpdBackup_Unchecked ==
  /\ upc = "backup"
  /\ \E r \in copyFile(exe, backup) :
       /\ backup' = r.dst
       /\ upc' = "replace"
       /\ uerr' = uerr
  /\ UNCHANGED <<exe, tarball, sumFile, verified>>
  /\ UNCHANGED cvars
  /\ UpdaterFrame

\* UpdateAgent: copyFile(currentExecPath, backupPath).
UpdBackup ==
  /\ upc = "backup"
  /\ \E r \in copyFile(exe, backup) :
       /\ backup' = r.dst
       /\ IF r.err THEN UpdateReturns("backup_failed")
                   ELSE upc' = "replace" /\ uerr' = uerr
  /\ UNCHANGED <<exe, tarball, sumFile, verified>>
  /\ UNCHANGED cvars
  /\ UpdaterFrame

\* UpdateAgent: copyFile(extractedBinaryPath, currentExecPath); when it fails,
\* copyFile(backupPath, currentExecPath) and the error is returned either way.
UpdReplace ==
  /\ upc = "replace"
  /\ \E r \in copyFile("new", exe) :
       IF ~r.err
       THEN exe' = r.dst /\ upc' = "restart" /\ uerr' = uerr
       ELSE \E rr \in copyFile(backup, r.dst) :
              /\ exe' = rr.dst
              /\ UpdateReturns(IF rr.err THEN "replace_and_restore_failed"
                                         ELSE "replace_failed")
  /\ UNCHANGED <<backup, tarball, sumFile, verified>>
  /\ UNCHANGED cvars
  /\ UpdaterFrame

\* UpdateAgent: cleanupTempFiles, time.Sleep(1 s), restartApplication.
\* restartApplication returns an error when os.Executable or cmd.Start fails;
\* once the new process is started it ends this one (interrupt or taskkill,
\* then os.Exit(0)) and UpdateAgent does not return.
UpdRestart ==
  /\ upc = "restart"
  /\ \E started \in BOOLEAN :
       IF started
       THEN upc' = "exited" /\ uerr' = uerr /\ proc' = "exit0"
       ELSE UpdateReturns("restart_failed") /\ proc' = proc
  /\ UNCHANGED <<exe, backup, tarball, sumFile, verified>>
  /\ UNCHANGED cvarsButProc
  /\ UpdaterFrame

\* The parts of the agent a specification does not run are at rest.
ExtrasIdle == UpdaterIdle /\ HealthIdle /\ LogIdle /\ SamplerIdle /\ DiskIdle

\* ------------------------------------------------------------ specifications
\* The protocol task, reading frames of the set F.
ConnectStep == CwrCheck \/ CwrDial \/ CwrSleep

ReadLoopStep(F) ==
  \/ SendAuth \/ LoopTop \/ ReadFrame(F) \/ ReadFail \/ ReadErr
  \/ WaitRound \/ Reauth \/ OnDisconnect

AuthStep == HandleAuthSuccess \/ OnAuthSuccess

ProtocolStep(F) ==
  \/ ConnectStep
  \/ ReadLoopStep(F)
  \/ AuthStep
  \/ HandleNotJSON \/ HandleSessionKey \/ HandleAuthRequest

\* Transport and session: the protocol task, a concurrent sender, the closer,
\* the monitor's restart and the network.
Init == StartState(0, "heartbeat") /\ ConfigStart(FileWith(0)) /\ ExtrasIdle

Next ==
  \/ ProtocolStep(BasicFrames)
  \/ WorkerCheckEncryption \/ WorkerWrite
  \/ CloseBegin \/ CloseFinish
  \/ MonitorRestart
  \/ LinkFail

Spec == Init /\ [][Next]_vars

\* The scheduler runs the protocol goroutine whenever it can take a step, and its
\* blocking read returns (a frame, an error, or the 90 s read deadline).
SpecFair == Spec /\ WF_vars(ProtocolStep(BasicFrames))

\* Key exchange: the protocol task alone, with every key_exchange message the
\* panel (or someone in its place) can send, starting with or without a pin.
InitKx == \E pinned \in 0..1 : StartState(pinned, "heartbeat") /\ ConfigStart(FileWith(0)) /\ ExtrasIdle

NextKx ==
  \/ ProtocolStep(AllFrames)
  \/ HandleKeyExchange
  \/ LinkFail

SpecKx == InitKx /\ [][NextKx]_vars

\* Process manager: the protocol task with the frames that start workers, the
\* worker goroutines of one kind, the monitor, Shutdown and the network.
AuthFrames == {f \in PlainFrames : f.t = "auth_success" /\ f.form = "text"}

WorkerStep(i) ==
  WorkerLoopCheck(i) \/ WorkerBodyReturn(i) \/ WorkerWake(i) \/ WorkerClamp(i)

InitSup == \E k \in Kinds : StartState(0, k) /\ AgentPrivateKey = FileKeyPair /\ ConfigStart(FileWith(0)) /\ ExtrasIdle

NextSup ==
  \/ ConnectStep
  \/ ReadLoopStep(AuthFrames)
  \/ AuthStep
  \/ \E i \in Spawns : WorkerStep(i)
  \/ MonitorRestart
  \/ ShutdownCancel \/ ShutdownStopWorkers \/ ShutdownReturn
  \/ LinkFail

SpecSup == InitSup /\ [][NextSup]_vars

\* The scheduler runs the goroutine inside Shutdown and the worker goroutines
\* whenever they can take a step.
SpecSupFair ==
  /\ SpecSup
  /\ WF_vars(ShutdownStopWorkers \/ ShutdownReturn)
  /\ WF_vars(\E i \in Spawns : WorkerStep(i))

\* Commands: the protocol task connecting and then handling the commands the
\* panel sends, the goroutines of the update command, and the network.
FileCadences == (-1)..1

InitCmd == \E v \in FileCadences : StartState(0, "reporter") /\ ConfigStart(FileWith(v)) /\ ExtrasIdle

NextCmd ==
  \/ ConnectStep
  \/ SendAuth \/ LoopTop
  \/ CmdRestart
  \/ \E d \in UpdateConfigDatas : CmdUpdateConfig(d)
  \/ \E d \in UpdateDatas : CmdUpdate(d)
  \/ UpdaterFail \/ UpdaterRestart
  \/ LinkFail

SpecCmd == InitCmd /\ [][NextCmd]_vars

\* Reload under time: the protocol task handling update_config commands that
\* carry a metrics_interval, and the running reporter with its metrics ticker.
NextTick ==
  \/ ConnectStep
  \/ SendAuth \/ LoopTop
  \/ \E d \in MetricsDatas : CmdUpdateConfig(d)
  \/ StartPeriodicReporting \/ Second \/ MetricsTick
  \/ LinkFail

SpecTick == InitCmd /\ [][NextTick]_vars

\* The watchdog and a reporter whose sends all succeed: the protocol task up to
\* its read loop, the reporter body with its metrics ticker, the monitor
\* receiving beats and checking the reporter's timeout, and the clock.
NextWatch ==
  \/ CwrCheck \/ CwrDial
  \/ SendAuth \/ LoopTop
  \/ ReporterStartOk \/ MetricsTickOk
  \/ MonitorReceive \/ ReporterWatchdog
  \/ WatchSecond

SpecWatch == InitCmd /\ [][NextWatch]_vars

\* The update service: one UpdateAgent call, with every release the download
\* can deliver and every step failing or succeeding.
InitUpd == StartState(0, "reporter") /\ ConfigStart(FileWith(0)) /\ ExtrasIdle

NextUpd ==
  \/ UpdateAgentBegin
  \/ UpdFetchRelease \/ UpdFindAssets \/ UpdDownload \/ UpdVerify
  \/ UpdExtract \/ UpdBackup \/ UpdReplace \/ UpdRestart

SpecUpd == InitUpd /\ [][NextUpd]_vars

\* Authentication and session key: the protocol task alone, with a shared secret
\* of 36 characters or of another length, with or without a key pair from an
\* earlier run, and with every session_key message the panel can send.
SessionFrames ==
  AllSessionKeyFrames \cup GarbledFrames \cup {f \in PlainFrames : f.t = "auth_request"}

InitAuth ==
  \E key \in {CurrentKey, OtherKey} :
    /\ StartState(0, "heartbeat")
    /\ ConfigStart([FileWith(0) EXCEPT !.key = key])
    /\ ExtrasIdle

NextAuth ==
  \/ ConnectStep
  \/ ReadLoopStep(SessionFrames)
  \/ HandleSessionKey \/ HandleAuthRequest
  \/ LinkFail

SpecAuth == InitAuth /\ [][NextAuth]_vars

\* Health: the protocol task with the frames that start workers and its
\* reconnects, the first heartbeat goroutine with the body in full, the monitor
\* receiving beats, the monitor's clock and the network.
InitHealth ==
  /\ StartState(0, "heartbeat")
  /\ AgentPrivateKey = FileKeyPair
  /\ ConfigStart(FileWith(0))
  /\ ExtrasIdle

NextHealth ==
  \/ ConnectStep
  \/ ReadLoopStep(AuthFrames)
  \/ AuthStep
  \/ HbSpawn \/ HbLoopCheck \/ HbEntry \/ HbWaitConn \/ HbTick
  \/ HbCtxDone \/ HbRecheck \/ HbTimeout \/ HbBackoff
  \/ MonitorReceive \/ HealthSecond
  \/ LinkFail

SpecHealth == InitHealth /\ [][NextHealth]_vars

\* Log shipping: the callers of SendLog, processLogs with its ticker, the
\* first dial of the connection and the network.
InitLog ==
  /\ StartState(0, "reporter")
  /\ AgentPrivateKey = FileKeyPair
  /\ ConfigStart(FileWith(0))
  /\ ExtrasIdle

NextLog ==
  \/ CwrCheck \/ CwrDial
  \/ SendLog \/ LogReceive \/ LogTick
  \/ LinkFail

SpecLog == InitLog /\ [][NextLog]_vars

\* The rate samplers of one Collector and the clock.
InitIO == StartState(0, "reporter") /\ AgentPrivateKey = FileKeyPair
          /\ ConfigStart(FileWith(0)) /\ ExtrasIdle

NextIO == getNetworkSpeed \/ getDiskIOSpeed \/ IoTick

SpecIO == InitIO /\ [][NextIO]_vars

\* The disk report of a Collector with any configured exclusions, on a host
\* with any partition table.
InitDisk ==
  /\ StartState(0, "reporter") /\ AgentPrivateKey = FileKeyPair
  /\ ConfigStart(FileWith(0))
  /\ UpdaterIdle /\ HealthIdle /\ LogIdle /\ SamplerIdle
  /\ ExcludedMountPoints \in ExcludedMountLists
  /\ ExcludedFilesystems \in ExcludedFsLists
  /\ partitions \in PartitionLists
  /\ UsageByMountpoint(partitions)
  /\ diskData = <<>>

NextDisk == SendDiskInfo

SpecDisk == InitDisk /\ [][NextDisk]_vars

\* ------------------------------------------------------------ properties
\* C1: at most one worker loop of a kind is live: no two goroutines of the kind
\* run the body at the same time under contexts that are not done.
C1_AtMostOneLiveWorker ==
  LET LiveBodies == {i \in Spawns : g[i].pc = "body" /\ ~Cancelled(g[i].ctx)}
  IN Cardinality(LiveBodies) <= 1

\* C2: once reconnect() has re-established the connection, and until a
\* session_key message is processed on the new connection, encryption is
\* disabled, no session key is in use, and the auth message is a text frame.
C2_EncryptionClearedOnReconnect ==
  connFresh => /\ ~EncryptionEnabled
               /\ SessionKey = 0
               /\ (lastFrame.msg = "auth" => lastFrame.kind = "text")

\* StartReporter dispatches a key_exchange success message to handleKeyExchange.
KxStep == rpc = "handle" /\ inbox.t = "key_exchange" /\ rpc' = "loop_top"

\* C3: a key_exchange message is accepted (fingerprint pinned, key stored) only
\* if the fingerprint computed from the received key equals the advertised one
\* and the advertised one equals the pinned one or none was pinned; a message
\* failing either check leaves panel_fingerprint and panel_public_key as they were.
C3_KeyExchangeAcceptsOnlyVerified ==
  [][KxStep =>
       LET ChecksPass ==
             /\ inbox.pem # NoPem
             /\ inbox.fp # 0
             /\ ~GetPublicKeyFingerprint(inbox.pem).err
             /\ GetPublicKeyFingerprint(inbox.pem).fp = inbox.fp
             /\ (PanelFingerprint = 0 \/ PanelFingerprint = inbox.fp)
       IN IF ChecksPass
          THEN PanelFingerprint' = inbox.fp /\ PanelPublicKey' = inbox.pem
          ELSE UNCHANGED <<PanelFingerprint, PanelPublicKey>>]_vars

\* C4: with a pinned fingerprint, a key_exchange advertising another fingerprint
\* fails with the fingerprint-mismatch error; the panel key and the pin are
\* untouched, the connection is not reset and encryption is not enabled.
C4_PinnedMismatchRejected ==
  [][(KxStep /\ PanelFingerprint # 0 /\ inbox.pem # NoPem
             /\ inbox.fp # 0 /\ inbox.fp # PanelFingerprint) =>
       /\ lastErr' = "fingerprint_mismatch"
       /\ UNCHANGED <<PanelFingerprint, PanelPublicKey, Conn, IsConnected,
                      EncryptionEnabled, SessionKey>>]_vars

C4_Witness ==
  /\ lastErr = "fingerprint_mismatch"
  /\ rpc = "loop_top"
  /\ PanelFingerprint = 1
  /\ PanelPublicKey = [k |-> 1]
  /\ IsConnected

\* C5: a frame written while encryption is enabled is a binary frame.
C5_EncryptedFramesAreBinary ==
  (EncryptionEnabled /\ lastFrame # NoFrame) => lastFrame.kind = "binary"

\* C6: a frame that cannot be decrypted, or is not JSON, is dropped: the
\* connection stays up, no reconnect starts, the loop reads the next frame.
C6_BadInboundDropped ==
  [][(rpc \in {"read_err", "handle"} /\ inbox.t \in {"garbled", "not_json"}
        /\ ~stopped /\ rpc' # rpc) =>
       /\ rpc' = "loop_top"
       /\ IsConnected' = IsConnected
       /\ Conn' = Conn]_vars

C8_SendFailureLeadsToReconnect ==
  /\ [](lastSend = "io_error" => ~IsConnected)
  /\ (lastSend = "io_error" ~> ((rpc = "cwr_check" /\ caller = "reconnect") \/ stopped))
  /\ [][(~IsConnected /\ IsConnected') => (rpc = "cwr_dial" /\ Conn' = "open")]_vars

\* C9: ConnectWithRetry dials at most MaxReconnect times with ReconnectWait
\* seconds before each further dial, returns nil at the first successful dial,
\* an error after the last failed dial, and an error without dialling when the
\* transport is stopped.
C9_BoundedConnectRetry ==
  /\ [](rpc = "cwr_dial" => (attempts < MaxReconnect /\ slept = ReconnectWait * attempts))
  /\ [][(rpc = "cwr_dial" /\ rpc' # rpc) =>
          \/ Conn' = "open" /\ IsConnected' /\ rpc' \in {"send_auth", "reauth"}
          \/ /\ attempts + 1 < MaxReconnect
             /\ rpc' = "cwr_sleep" /\ attempts' = attempts + 1 /\ Conn' = Conn
          \/ /\ attempts + 1 = MaxReconnect
             /\ rpc' \in {"start_failed", "wait60"} /\ Conn' = Conn]_vars
  /\ [][(rpc = "cwr_sleep" /\ rpc' # rpc) =>
          (rpc' = "cwr_check" /\ slept' = slept + ReconnectWait)]_vars
  /\ [][(rpc = "cwr_check" /\ rpc' # rpc) =>
          IF stopped
          THEN rpc' \in {"start_failed", "wait60"} /\ Conn' = Conn /\ IsConnected' = IsConnected
          ELSE rpc' = "cwr_dial"]_vars

C9_Witness == rpc = "wait60" /\ waitI = 0 /\ ~stopped /\ caller = "reconnect"

\* C10: once Close() has returned, the transport is stopped, IsConnected is
\* false, no connection is open and no frame is written.
C10_ClosedStaysClosed ==
  closeReturned => /\ stopped
                   /\ ~IsConnected
                   /\ Conn # "open"
                   /\ lastFrame = NoFrame

\* C11: a restart the monitor has begun completes: the monitor leaves
\* restartHeartbeat / restartReporter, releasing pm.mu, and goes on with its loop.
C11_RestartCompletes == (pmMu = "monitor") ~> (pmMu = "free")

\* C12: a Shutdown that has begun returns: it never waits without bound on
\* pm.mu or on a worker.
C12_ShutdownTerminates == (spc \in {"lock", "wait"}) ~> (spc = "done")

\* C13: once the context made for a worker goroutine is cancelled, that
\* goroutine never calls its body again, and it exits.
C13_CancelledWorkerExits ==
  /\ [][\A i \in Spawns :
          (i \in ctxCancelled /\ g[i].pc # "body") => g'[i].pc # "body"]_vars
  /\ \A i \in Spawns : (i \in ctxCancelled) ~> (g[i].pc = "exited")

\* C14: the backoff delay of a worker kind is one of 1, 2, 4, 8, 16, 32, 64 s
\* whenever no goroutine is inside exponentialBackoff, and every sleep a worker
\* loop starts lasts one of these, also under concurrent updates.
C14_BackoffDelayInRange ==
  /\ []((\A i \in Spawns : g[i].pc # "clamp") =>
          RestartDelay \in {1, 2, 4, 8, 16, 32, 64})
  /\ [][\A i \in Spawns :
          (g[i].pc # "sleep" /\ g'[i].pc = "sleep") =>
             RestartDelay \in {1, 2, 4, 8, 16, 32, 64}]_vars

\* C15: after an update_config command changed the metrics interval with no
\* change of server or key, the running reporter's next metrics tick arrives
\* within the new metrics_interval: while the tick is awaited, no more seconds
\* have passed since the reload than the interval the Collector now holds.
C15_ReloadAppliesNewCadence ==
  sinceReload >= 0 => sinceReload <= collector.metrics_interval

\* C16: an update_config command whose data carry a server or a key different
\* from the current one is answered with the "restarting" command_response and
\* calls restartAgent, whatever other fields it carries (including none);
\* any other update_config command calls no restart, and calls OnReload when it
\* changed and saved the configuration. (A command whose save failed is left out.)
C16_ServerOrKeyChangeRestarts ==
  (lastCmd.command = "update_config" /\ lastCmd.data.isMap /\ cmdErr # "save_failed") =>
     IF NeedRestart(cfgPtr, lastCmd.data)
     THEN lastResponse.message = "restarting" /\ restartInvoked
     ELSE ~restartInvoked /\ (ConfigUpdated(lastCmd.data) => reloadEmitted)

\* C17: an update_config command that carries a cadence of 0 or less leaves
\* that cadence as it was: Config holds the value it held before the command,
\* and the file holds the value Config held before when the command saved the
\* configuration, and the value the file held before when it did not.
C17_NonPositiveCadenceRejected ==
  [][\A c \in Cadences :
       ( /\ handled' # handled
         /\ lastCmd'.command = "update_config"
         /\ lastCmd'.data.isMap
         /\ IsFloat64(lastCmd'.data[c])
         /\ lastCmd'.data[c].num <= 0 )
       => /\ cfgPtr'[c] = cfgPtr[c]
          /\ configFile'[c] = IF lastResponse'.message \in {"restarting", "reloaded"}
                               THEN cfgPtr[c] ELSE configFile[c]]_vars

\* C17 witness: an update_config command that carried a metrics_interval of 0 or
\* less together with a valid field has been handled and saved.
C17_Witness ==
  /\ lastCmd.command = "update_config"
  /\ IsFloat64(lastCmd.data.metrics_interval)
  /\ lastCmd.data.metrics_interval.num <= 0
  /\ lastResponse.message = "reloaded"

\* C18: the four cadences of the Config the read loop holds are integers > 0
\* in every reachable state.
C18_CadencesPositive == \A c \in Cadences : cfgPtr[c] \in Nat \ {0}

\* C19: an error inside a command handler is answered with a command_response
\* of status "error", and neither the protocol loop nor the process ends.
C19_HandlerErrorsAnswered ==
  cmdErr # "" => /\ lastResponse.status = "error"
                 /\ proc = "running"
                 /\ rpc # "exited"

\* C20: an update command with a non-empty data.version is answered with
\* success and launches the Updater, one without it is answered with error and
\* launches none; an Updater that ends sends one more command_response,
\* success when it completed and error when it failed.
C20_UpdateRepliesThenReports ==
  /\ [][(handled' # handled /\ lastCmd'.command = "update") =>
          IF lastCmd'.data.isMap /\ lastCmd'.data.version # ""
          THEN /\ lastResponse' = [command |-> "update", status |-> "success",
                                    message |-> "started"]
               /\ updaters' = updaters + 1
          ELSE /\ lastResponse'.status = "error"
               /\ updaters' = updaters]_vars
  /\ [](lastUpdater = "failed" =>
          lastResponse.command = "update" /\ lastResponse.status = "error")
  /\ [](lastUpdater = "completed" =>
          lastResponse.command = "update" /\ lastResponse.status = "success")

\* C21: whenever UpdateAgent has returned an error, at whatever step, the
\* current executable has its pre-update content and the process has not exited.
\* (The return after a failed replacement whose restore failed too is left
\* aside: there the code reports that the backup could not be restored.)
C21_ErrorLeavesExecutable ==
  (upc = "returned" /\ uerr # "replace_and_restore_failed")
    => exe = "old" /\ proc = "running"

\* C22: the checksum comparison passes only if the first white-space separated
\* token of the .sha256 file equals the tarball's SHA-256 in some letter case,
\* and it reports a mismatch only if that token differs: a file "<hash>
\* <filename>" with the right hash passes.
C22_ChecksumFirstToken ==
  LET Matches == EqualFold(FirstToken(sumFile), calculateSHA256(tarball))
  IN /\ verified => Matches
     /\ uerr = "checksum_mismatch" => ~Matches

\* StartReporter dispatches a session_key success message to handleSessionKey.
SkStep == rpc = "handle" /\ inbox.t = "session_key" /\ rpc' = "loop_top"

\* C23: a session_key message whose payload decodes and decrypts, received with
\* an agent private key in Config, enables transport encryption with the
\* decrypted key and sets session_key (its base64 text) and encryption_enabled
\* in Config; in every other case the handler returns an error and the
\* transport's encryption state, Config and the configuration file are unchanged.
C23_SessionKeyAllOrNothing ==
  [][SkStep =>
       IF AgentPrivateKey # NoKeyPair /\ inbox.payload = "good"
       THEN /\ lastErr' = ""
            /\ EncryptionEnabled'
            /\ SessionKey' = inbox.key
            /\ cfgPtr'.session_key = EncodeToString(inbox.key)
            /\ cfgPtr'.encryption_enabled
            /\ configFile' \in {configFile, cfgPtr'}
       ELSE /\ lastErr' # ""
            /\ UNCHANGED <<EncryptionEnabled, SessionKey, cfgPtr, configFile,
                           PanelFingerprint, PanelPublicKey, AgentPrivateKey>>]_vars

\* A session key was accepted and saved: it is in use, in Config and in the file.
C23_Witness ==
  /\ rpc = "loop_top"
  /\ lastErr = ""
  /\ EncryptionEnabled
  /\ SessionKey = NumSessionKeys
  /\ cfgPtr.session_key = EncodeToString(NumSessionKeys)
  /\ cfgPtr.encryption_enabled
  /\ configFile = cfgPtr

C25_AuthSuccessStartsWorkers ==
  /\ [][(rpc = "handle" /\ inbox.t = "auth_success" /\ rpc' # rpc) =>
          /\ rpc' = "on_auth_success"
          /\ lastSend' # "none"
          /\ lastSend' = "ok" => lastFrame'.msg = "agent_config"]_vars
  /\ (rpc = "on_auth_success") ~> (rpc = "loop_top" /\ cancelSet)

\* C26: after a "hello" send has failed, StartHeartbeat returns only when its
\* context is done: with a context that is not cancelled the body keeps running.
C26_HeartbeaterSurvivesFailedSend ==
  [][(bpc \in InHeartbeatBody /\ bpc' = "sleep" /\ sendFailed) => Cancelled(bctx)]_vars

\* C28: every beat the monitor receives, healthy or failed, sets the worker's
\* last-beat timestamp to now; a healthy beat sets the worker's restart delay to
\* 1 s and a failed beat leaves the delay as it is.
C28_EveryBeatUpdatesTimestamp ==
  [][(health # <<>> /\ health' = Tail(health)) =>
       /\ sinceHealth' = 0
       /\ RestartDelay' = IF Head(health) THEN InitialRestartDelay ELSE RestartDelay]_vars

\* C27: a telemetry send of the reporter body that fails (here the metrics
\* message of a metrics tick) puts an unhealthy beat on the reporter's health
\* channel, and the tick makes no second attempt.
C27_FailedSendIsUnhealthyBeat ==
  [][(metricsTicker > 0 /\ sinceTick = metricsTicker /\ sinceTick' = 0
        /\ lastSend' \notin {"none", "ok"}) =>
       /\ lastFrame' = NoFrame
       /\ health' = Append(health, FALSE)]_vars

\* The records still on their way, oldest first.
LogsInFlight == buffer \o logChan

Increasing(q) == \A i \in 1..(Len(q) - 1) : q[i] < q[i + 1]

\* What one step of the log path does to the records.
LogStep ==
  /\ (nextLog' # nextLog) =>
       /\ UNCHANGED <<buffer, sent>>
       /\ IF Len(logChan) >= LogChanCap
          THEN UNCHANGED <<logChan, accepted>>
          ELSE logChan' = Append(logChan, nextLog') /\ accepted' = accepted + 1
  /\ (sent' # sent) =>
       /\ Len(lastBatch') \in 1..LogBatchSize
       /\ sent' = sent + Len(lastBatch')
       /\ lastBatch' \o buffer' \o logChan' = LogsInFlight
       /\ buffer' = <<>>
       /\ Len(lastBatch') = LogBatchSize \/ logChan' = logChan
       /\ lastSend' = "ok" => lastFrame'.msg = "agent_log"
  /\ (sent' = sent /\ nextLog' = nextLog) => LogsInFlight' = LogsInFlight

SampleAsClaimed(out, last, lastTime, next, nextTime) ==
  IF out.err
  THEN out.a = ZeroSpeed /\ out.b = ZeroSpeed /\ next = last /\ nextTime = lastTime
  ELSE /\ ~next.nil
       /\ nextTime = ioNow
       /\ last.nil => out.a = ZeroSpeed /\ out.b = ZeroSpeed
       /\ (~last.nil /\ SumA(next.m) >= SumA(last.m) /\ SumB(next.m) >= SumB(last.m)) =>
            /\ out.a.num = (SumA(next.m) - SumA(last.m)) * TicksPerSecond
            /\ out.b.num = (SumB(next.m) - SumB(last.m)) * TicksPerSecond
            /\ out.a.num >= 0 /\ out.b.num >= 0
            /\ out.a.den > 0 /\ out.b.den > 0

\* C30: the first call of getNetworkSpeed or getDiskIOSpeed on a fresh Collector
\* returns (0, 0) and stores the current counters; a later call whose summed
\* counters are not lower than the stored ones returns two non-negative speeds
\* and replaces snapshot and timestamp by the current ones; a call whose probe
\* fails returns (0, 0) and leaves the snapshot as it is.
C30_SamplerSnapshots ==
  [][/\ lastSample'.call = "net" =>
          SampleAsClaimed(lastSample', lastNetIOCounters, lastNetIOTime,
                          lastNetIOCounters', lastNetIOTime')
     /\ lastSample'.call = "disk" =>
          SampleAsClaimed(lastSample', lastDiskIOCounters, lastDiskIOTime,
                          lastDiskIOCounters', lastDiskIOTime')]_vars

\* A later getDiskIOSpeed call has just returned a positive read speed, the
\* network sampler holds a snapshot, and its last probe has not failed.
C30_Witness ==
  /\ lastSample.call = "disk"
  /\ ~lastSample.err
  /\ lastSample.a.num > 0
  /\ ~lastNetIOCounters.nil

\* The components of a path: the non-empty stretches between "/" characters.
RECURSIVE Components(_, _)
Components(path, cur) ==
  IF path = <<>> THEN (IF cur = <<>> THEN <<>> ELSE <<cur>>)
  ELSE IF Head(path) = "/"
       THEN (IF cur = <<>> THEN <<>> ELSE <<cur>>) \o Components(Tail(path), <<>>)
       ELSE Components(Tail(path), Append(cur, Head(path)))

\* mountPoint lies below entry in the directory tree.
DescendantOf(mountPoint, entry) ==
  LET m == Components(mountPoint, <<>>)
      e == Components(entry, <<>>)
  IN Len(m) > Len(e) /\ SubSeq(m, 1, Len(e)) = e

\* The exclusions filter_partitions is said to apply to one partition.
ExcludedAsClaimed(p) ==
  \/ \E i \in 1..Len(ExcludedMountPoints) :
        \/ p.Mountpoint = ExcludedMountPoints[i]
        \/ DescendantOf(p.Mountpoint, ExcludedMountPoints[i])
  \/ \E i \in 1..Len(ExcludedFilesystems) : p.Fstype = ExcludedFilesystems[i]
  \/ (~p.usage.nil /\ p.usage.Total = 0)

InSeq(x, q) == \E i \in 1..Len(q) : q[i] = x

\* C31: after SendDiskInfo, a partition that its mountpoint (equal to an
\* excluded entry or below one), its filesystem type or a total size of 0
\* excludes is not in the report, and a partition that none of them excludes,
\* whose usage is known and whose device no other partition has, is in it.
C31_ExcludedExactly ==
  lastSend # "none" =>
    LET kept == filterPartitions(partitions)
    IN /\ diskData = [i \in 1..Len(kept) |-> DiskRow(kept[i])]
       /\ \A i \in 1..Len(partitions) :
            ExcludedAsClaimed(partitions[i]) => ~InSeq(partitions[i], kept)
       /\ \A i \in 1..Len(partitions) :
            (/\ ~ExcludedAsClaimed(partitions[i])
             /\ ~partitions[i].usage.nil
             /\ \A j \in 1..Len(partitions) :
                  partitions[j].Device = partitions[i].Device => j = i)
              => InSeq(partitions[i], kept)

\* q holds the elements of p it has in the order p has them: the increasing
\* positions at which q's elements stand in p.
RECURSIVE IsSubsequence(_, _)
IsSubsequence(q, p) ==
  IF q = <<>> THEN TRUE
  ELSE IF p = <<>> THEN FALSE
  ELSE IF Head(q) = Head(p) THEN IsSubsequence(Tail(q), Tail(p))
  ELSE IsSubsequence(q, Tail(p))

\* The first partition of the list that has this device.
FirstOfDevice(parts, device) ==
  parts[CHOOSE i \in 1..Len(parts) :
          /\ parts[i].Device = device
          /\ \A j \in 1..(i - 1) : parts[j].Device # device]

\* The partition is a candidate for the report: SendDiskInfo skips it neither
\* for its mountpoint nor for its filesystem type nor for its usage.
Candidate(p) ==
  /\ ~isVirtualFilesystem(p.Mountpoint)
  /\ ~isExcludedFilesystem(p.Fstype)
  /\ ~p.usage.nil /\ p.usage.Total # 0

InCallback == {"on_auth_success", "on_disconnect"}

\* C33: a callback the read loop has entered (OnAuthSuccess, OnDisconnect)
\* returns, whatever holds pm.mu at that moment: the loop gets past it.
C33_CallbacksReturn == (rpc \in InCallback) ~> (rpc \notin InCallback)

\* C34: once the transport is stopped the read loop returns (or Agent.Start has
\* failed before the loop began), and from then on no step of the loop puts an
\* auth message on the connection or begins a dial.
C34_StoppedLoopTerminates ==
  /\ stopped ~> (rpc \in {"returned", "start_failed"})
  /\ [][stopped =>
         /\ ~(rpc' # rpc /\ lastSend' = "ok" /\ lastFrame'.msg = "auth")
         /\ ~(rpc # "cwr_dial" /\ rpc' = "cwr_dial")]_vars

\* The workers are stopped: a worker was started and OnDisconnect has cancelled
\* its context and cleared the cancel function; OnAuthSuccess has not yet
\* started a new one.
WorkersStopped == ctxCur > 0 /\ ~cancelSet

\* C35: after a reconnect the read loop delivers OnDisconnect next, before it
\* reads any frame of the new connection, and from OnDisconnect until the next
\* OnAuthSuccess no worker goroutine calls its body (StartHeartbeat,
\* StartPeriodicReporting).
C35_WorkersStoppedUntilAuth ==
  [][/\ (rpc = "reauth" /\ rpc' # rpc) => rpc' = "on_disconnect"
     /\ (rpc' = "on_auth_success" /\ rpc' # rpc) => rpc = "handle"
     /\ WorkersStopped =>
          \A i \in Spawns : g'[i].pc = "body" => g[i].pc = "body"]_vars

\* The errors UpdateAgent returns before it opens the executable for writing.
EarlyUpdateErrors ==
  {"release_info_failed", "asset_missing", "download_failed",
   "checksum_read_failed", "checksum_mismatch", "extract_failed",
   "backup_failed"}

\* C36: the executable changes only in the replacement step, after the
\* checksum comparison has succeeded and <exe>.backup holds a full copy of the
\* executable; when UpdateAgent returns for a missing asset, a failed download,
\* a checksum mismatch, a failed extraction or a failed backup the executable
\* is the one it was.
C36_ReplaceAfterVerifyAndBackup ==
  [][/\ exe' # exe => upc = "replace" /\ verified /\ backup = exe
     /\ (upc' = "returned" /\ uerr' \in EarlyUpdateErrors) =>
          exe' = "old" /\ exe = "old"]_vars

\* The replacement has been made.
C36_Witness == upc = "restart" /\ exe = "new" /\ verified /\ backup = "old"

\* A rate divides by at least one second and is not larger than the raw delta
\* of the counter sums x (stored) and y (current).
RateClamped(speed, x, y) ==
  /\ speed.den >= TicksPerSecond
  /\ speed.num <= SubU64(y, x) * speed.den

\* What C37 says of a sampler call that returned out and moved its snapshot
\* from last to next.
ClampedAsClaimed(out, last, next) ==
  (~out.err /\ ~last.nil) =>
    /\ RateClamped(out.a, SumA(last.m), SumA(next.m))
    /\ RateClamped(out.b, SumB(last.m), SumB(next.m))

\* C37: a rate sampler divides the counter delta by the elapsed time clamped to
\* at least 1 second, so that no call reports a rate larger than the raw byte
\* delta between the two samples.
C37_RateAtMostDelta ==
  [][/\ lastSample'.call = "net" =>
          ClampedAsClaimed(lastSample', lastNetIOCounters, lastNetIOCounters')
     /\ lastSample'.call = "disk" =>
          ClampedAsClaimed(lastSample', lastDiskIOCounters, lastDiskIOCounters')]_vars

\* C38: once Config.panel_fingerprint is non-empty no key_exchange message,
\* valid or invalid, changes it.
C38_PinnedFingerprintConstant ==
  [][PanelFingerprint # 0 => PanelFingerprint' = PanelFingerprint]_vars

\* A key_exchange message advertising another fingerprint than the pinned one
\* has just been handled.
C38_Witness ==
  /\ PanelFingerprint # 0
  /\ lastErr = "fingerprint_mismatch"
  /\ rpc = "loop_top"

\* C39: at most one goroutine of the update command runs UpdateAgent at a
\* time: an update command received while an earlier update is in progress
\* starts no second one.
C39_AtMostOneUpdater == updaters <= 1

\* C40: while the reporter is connected and all its sends succeed, the monitor,
\* with no beat left unread on the health channel, never sees more than 120 s
\* pass since the reporter's last healthy beat, and so never restarts it.
C40_ReporterBeatsWithinTimeout ==
  [][health = <<>> =>
       /\ sinceHealth' <= ReporterTimeout
       /\ ~(pmMu = "free" /\ pmMu' = "monitor")]_vars

=============================================================================
